---- MODULE Spec2Model ----
(***************************************************************************)
(* PN2CCS: the dynamic graph representation of a Petri net (pn.js), its    *)
(* transformation into a 2-τ-synchronisation net and its encoding into CCS *)
(* (ccs.js).                                                               *)
(*                                                                         *)
(* JavaScript objects live in a heap: a sequence of records indexed by     *)
(* reference, so that object identity (===), stale references and shared   *)
(* objects are visible.  JavaScript strings that the code builds, parses   *)
(* or compares are sequences of one-character strings.                     *)
(***************************************************************************)
EXTENDS Integers, Sequences, FiniteSets, TLC

VARIABLES heap, net, result

vars == <<heap, net, result>>

(***************************************************************************)
(* Bounds of the model.                                                    *)
(***************************************************************************)
\* Objects (places, transitions, edges) the caller of Spec allocates.
MaxObjects == 4

\* Places, transitions, place->transition edges and transition->place edges of the
\* nets that SpecSync builds and transforms.
MaxSyncPlaces == 4
MaxSyncTransitions == 2
MaxSyncInputEdges == 5
MaxSyncOutputEdges == 1

\* The same for the nets that SpecClass builds and classifies.
MaxClassPlaces == 3
MaxClassTransitions == 3
MaxClassInputEdges == 4
MaxClassOutputEdges == 1

\* The same for the nets that SpecFlow builds and classifies.
MaxFlowPlaces == 3
MaxFlowTransitions == 3
MaxFlowInputEdges == 3
MaxFlowOutputEdges == 3

\* The same for the nets that SpecCCS builds and encodes.
MaxUpdateObjects == 3
MaxGuiPlaces == 3
MaxGuiTransitions == 2
MaxGuiInputEdges == 3
MaxGuiOutputEdges == 1
MaxCCSPlaces == 2
MaxCCSTransitions == 2
MaxCCSInputEdges == 4
MaxCCSOutputEdges == 2

\* Arguments the caller of Spec passes.
NameHints == {0, 2, -1}
TokenInputs == {0, -1}
WeightInputs == {1, 0}

(***************************************************************************)
(* Strings.                                                                *)
(***************************************************************************)
LowerCase == {"a", "b", "c", "d", "e", "f", "g", "h", "i", "j", "k", "l", "m",
              "n", "o", "p", "q", "r", "s", "t", "u", "v", "w", "x", "y", "z"}
UpperCase == {"A", "B", "C", "D", "E", "F", "G", "H", "I", "J", "K", "L", "M",
              "N", "O", "P", "Q", "R", "S", "T", "U", "V", "W", "X", "Y", "Z"}
Digits == <<"0", "1", "2", "3", "4", "5", "6", "7", "8", "9">>
DigitChars == {Digits[i] : i \in DOMAIN Digits}

\* The characters of the model in increasing UTF-16 code unit order.
CharOrder == <<"-", "0", "1", "2", "3", "4", "5", "6", "7", "8", "9",
               "A", "B", "C", "D", "E", "F", "G", "H", "I", "J", "K", "L", "M",
               "N", "O", "P", "Q", "R", "S", "T", "U", "V", "W", "X", "Y", "Z",
               "_",
               "a", "b", "c", "d", "e", "f", "g", "h", "i", "j", "k", "l", "m",
               "n", "o", "p", "q", "r", "s", "t", "u", "v", "w", "x", "y", "z",
               "τ">>

CharCode(c) == CHOOSE i \in DOMAIN CharOrder : CharOrder[i] = c

\* a < b for JavaScript strings (comparison by code units).
RECURSIVE StringLess(_, _)
StringLess(a, b) ==
    IF b = <<>> THEN FALSE
    ELSE IF a = <<>> THEN TRUE
    ELSE IF Head(a) # Head(b) THEN CharCode(Head(a)) < CharCode(Head(b))
    ELSE StringLess(Tail(a), Tail(b))

\* String(n) of an integer n.
RECURSIVE NatToString(_)
NatToString(n) ==
    IF n < 10 THEN <<Digits[n + 1]>>
    ELSE NatToString(n \div 10) \o <<Digits[(n % 10) + 1]>>

NumberToString(n) == IF n < 0 THEN <<"-">> \o NatToString(-n) ELSE NatToString(n)

TAU == <<"τ">>

\* /^([a-z][a-zA-Z0-9]*|τ)$/
LabelPattern(s) ==
    \/ s = TAU
    \/ /\ Len(s) >= 1
       /\ s[1] \in LowerCase
       /\ \A i \in 2..Len(s) : s[i] \in LowerCase \cup UpperCase \cup DigitChars

\* /^[a-z][a-zA-Z0-9_]*$/
ActionNamePattern(s) ==
    /\ Len(s) >= 1
    /\ s[1] \in LowerCase
    /\ \A i \in 2..Len(s) : s[i] \in LowerCase \cup UpperCase \cup DigitChars \cup {"_"}

\* /^[A-Z][a-zA-Z0-9_]*$/
ConstantNamePattern(s) ==
    /\ Len(s) >= 1
    /\ s[1] \in UpperCase
    /\ \A i \in 2..Len(s) : s[i] \in LowerCase \cup UpperCase \cup DigitChars \cup {"_"}

\* /^s_t\d+$/
SyncNamePattern(s) ==
    /\ Len(s) >= 4
    /\ SubSeq(s, 1, 3) = <<"s", "_", "t">>
    /\ \A i \in 4..Len(s) : s[i] \in DigitChars

LabelInputs == {TAU, <<"A">>}

(***************************************************************************)
(* Error messages.                                                         *)
(***************************************************************************)
NoError == "none"
ERROR_PT == "Multiple edges are not allowed from places to transitions."
ERROR_TP == "Multiple edges are not supported (but weighted edges are supported) from transitions to places."
ERROR_NAME_ID == "Name id must be a positive integer."
ERROR_TOKENS == "Place tokens must be a non-negative integer."
ERROR_LABEL == "Transition label must be a non-empty string in camelCase or τ."
ERROR_UNRELATED_REMOVE == "Unrelated edge cannot be removed."
ERROR_BIPARTITE == "Edge must be between a place and a transition."
ERROR_UNRELATED_FROM == "Unrelated from-node cannot be used."
ERROR_UNRELATED_TO == "Unrelated to-node cannot be used."
ERROR_UNRELATED_PLACE == "Unrelated place cannot be removed."
ERROR_UNRELATED_TRANSITION == "Unrelated transition cannot be removed."
ERROR_NOT_TRANSFORMABLE == "Petri net is neither a 2-τ-synchronisation net or group-choice net as required."
ERROR_NOT_2TAU == "Petri net is not a 2-τ-synchronisation net."
ERROR_UNDEFINED == "Cannot read properties of undefined (reading 'id')"

(***************************************************************************)
(* Arrays.  JavaScript indices start at 0, sequences at 1; 0 is the        *)
(* reference `undefined`.                                                  *)
(***************************************************************************)
Undefined == 0

At(array, index) == IF index + 1 \in DOMAIN array THEN array[index + 1] ELSE Undefined

\* array.indexOf(x), -1 when absent.
IndexOf(array, x) ==
    IF \E i \in DOMAIN array : array[i] = x
    THEN (CHOOSE i \in DOMAIN array : array[i] = x /\ \A j \in 1..(i - 1) : array[j] # x) - 1
    ELSE -1

Pop(array) == SubSeq(array, 1, Len(array) - 1)

\* array[index] = array[array.length - 1]; array.pop();
SwapRemove(array, index) == Pop([array EXCEPT ![index + 1] = array[Len(array)]])

Range(array) == {array[i] : i \in DOMAIN array}

IsInteger(x) == x \in Int

(***************************************************************************)
(* IdObject, Node, Place, Transition, Edge.                                *)
(***************************************************************************)
AUTO_NAME_ID == 0

IsPlace(h, ref) == ref \in DOMAIN h /\ h[ref].kind = "Place"
IsTransition(h, ref) == ref \in DOMAIN h /\ h[ref].kind = "Transition"
IsEdge(h, ref) == ref \in DOMAIN h /\ h[ref].kind = "Edge"

\* IdObject.setId throws
SetIdThrows(id) == ~IsInteger(id) \/ id < 0

\* Node.setNameId throws
SetNameIdThrows(nameId) == ~IsInteger(nameId) /\ nameId > 0

\* Place.setTokens throws
SetTokensThrows(tokens) == ~IsInteger(tokens) \/ tokens < 0

\* Transition.setLabel throws
SetLabelThrows(label) == ~LabelPattern(label)

\* new Place(id, nameId, tokens): the error thrown, or NoError
PlaceConstructor(id, nameId, tokens) ==
    IF SetIdThrows(id) THEN "Node id must be a non-negative integer."
    ELSE IF SetNameIdThrows(nameId) THEN ERROR_NAME_ID
    ELSE IF SetTokensThrows(tokens) THEN ERROR_TOKENS
    ELSE NoError

NewPlace(id, nameId, tokens) ==
    [kind |-> "Place", id |-> id, nameId |-> nameId, tokens |-> tokens,
     in |-> <<>>, out |-> <<>>]

\* new Transition(id, nameId, label): the error thrown, or NoError
TransitionConstructor(id, nameId, label) ==
    IF SetIdThrows(id) THEN "Node id must be a non-negative integer."
    ELSE IF SetNameIdThrows(nameId) THEN ERROR_NAME_ID
    ELSE IF SetLabelThrows(label) THEN ERROR_LABEL
    ELSE NoError

NewTransition(id, nameId, label) ==
    [kind |-> "Transition", id |-> id, nameId |-> nameId, label |-> label,
     in |-> <<>>, out |-> <<>>]

\* Place.getName / Transition.getName
GetName(h, ref) ==
    (IF h[ref].kind = "Place" THEN <<"p">> ELSE <<"t">>) \o NumberToString(h[ref].nameId)

\* NodeAddEdge without the tests for an edge between the same nodes.
NodeAddEdgeUnchecked(h, this, edge) ==
    IF h[edge].from = this
    THEN [heap |-> [h EXCEPT ![this].out = Append(@, edge)], threw |-> NoError]
    ELSE IF h[edge].to = this
    THEN [heap |-> [h EXCEPT ![this].in = Append(@, edge)], threw |-> NoError]
    ELSE [heap |-> h, threw |-> "Unrelated edge cannot be added."]

\* Node.addEdge(edge) on the node `this`
NodeAddEdge(h, this, edge) ==
    IF h[edge].from = this THEN
        IF \E i \in DOMAIN h[this].out : h[h[this].out[i]].to = h[edge].to
        THEN [heap |-> h, threw |-> IF IsPlace(h, this) THEN ERROR_PT ELSE ERROR_TP]
        ELSE [heap |-> [h EXCEPT ![this].out = Append(@, edge)], threw |-> NoError]
    ELSE IF h[edge].to = this THEN
        IF \E i \in DOMAIN h[this].in : h[h[this].in[i]].from = h[edge].from
        THEN [heap |-> h, threw |-> IF IsTransition(h, this) THEN ERROR_PT ELSE ERROR_TP]
        ELSE [heap |-> [h EXCEPT ![this].in = Append(@, edge)], threw |-> NoError]
    ELSE [heap |-> h, threw |-> "Unrelated edge cannot be added."]

\* NodeRemoveEdge that leaves the list `in` alone.
NodeRemoveEdgeFromOutOnly(h, this, edge) ==
    IF h[edge].from = this THEN
        LET index == IndexOf(h[this].out, edge) IN
        IF index = -1
        THEN [heap |-> h, threw |-> "Edge could not be found for removal."]
        ELSE [heap |-> [h EXCEPT ![this].out = SwapRemove(@, index)], threw |-> NoError]
    ELSE [heap |-> h, threw |-> NoError]

\* Node.removeEdge(edge) on the node `this`
NodeRemoveEdge(h, this, edge) ==
    IF h[edge].from = this THEN
        LET index == IndexOf(h[this].out, edge) IN
        IF index = -1
        THEN [heap |-> h, threw |-> "Edge could not be found for removal."]
        ELSE [heap |-> [h EXCEPT ![this].out = SwapRemove(@, index)], threw |-> NoError]
    ELSE IF h[edge].to = this THEN
        LET index == IndexOf(h[this].in, edge) IN
        IF index = -1
        THEN [heap |-> h, threw |-> "Edge could not be found for removal."]
        ELSE [heap |-> [h EXCEPT ![this].in = SwapRemove(@, index)], threw |-> NoError]
    ELSE [heap |-> h, threw |-> ERROR_UNRELATED_REMOVE]

\* new Edge(id, from, to, weight): the new object is the last one of the heap
EdgeConstructor(h, id, from, to, weight) ==
    IF SetIdThrows(id) THEN [heap |-> h, threw |-> "Node id must be a non-negative integer."]
    ELSE IF ~(IsPlace(h, from) \/ IsTransition(h, from)) THEN [heap |-> h, threw |-> "From-node must be a place or a transition."]
    ELSE IF ~(IsPlace(h, to) \/ IsTransition(h, to)) THEN [heap |-> h, threw |-> "To-node must be a place or a transition."]
    ELSE IF IsPlace(h, from) = IsPlace(h, to) THEN [heap |-> h, threw |-> ERROR_BIPARTITE]
    ELSE
        LET h1 == Append(h, [kind |-> "Edge", id |-> id, from |-> from, to |-> to,
                             weight |-> weight])
            edge == Len(h1)
            r1 == NodeAddEdge(h1, from, edge)
        IN  IF r1.threw # NoError
            THEN [heap |-> h, threw |-> r1.threw]
            ELSE NodeAddEdge(r1.heap, to, edge)

(***************************************************************************)
(* PetriNet: the graph operations.  Each returns the heap and the net      *)
(* after the call, the error thrown (NoError when it returns) and the      *)
(* reference returned.                                                     *)
(***************************************************************************)
\* placeNames = [true]; transitionNames = [true];
InitialNames == [marked |-> {0}, length |-> 1]

\* new PetriNet()
NewPetriNet ==
    [places |-> <<>>, transitions |-> <<>>, edges |-> <<>>,
     placeNames |-> InitialNames, transitionNames |-> InitialNames]

\* names[nameId] is truthy
NameTaken(names, nameId) == nameId \in names.marked

\* names[nameId] = true;
MarkName(names, nameId) ==
    [marked |-> names.marked \cup {nameId},
     length |-> IF IsInteger(nameId) /\ nameId >= names.length THEN nameId + 1
                ELSE names.length]

\* names.lastIndexOf(true)
LastIndexOfTrue(names) ==
    LET found == {i \in names.marked : IsInteger(i) /\ i >= 0 /\ i < names.length} IN
    IF found = {} THEN -1 ELSE CHOOSE i \in found : \A j \in found : j <= i

\* FreeName without names.length = names.lastIndexOf(true) + 1;
FreeNameKeepingLength(names, nameId) == [names EXCEPT !.marked = @ \ {nameId}]

\* delete names[nameId]; names.length = names.lastIndexOf(true) + 1;
FreeName(names, nameId) ==
    LET deleted == [names EXCEPT !.marked = @ \ {nameId}]
        length == LastIndexOfTrue(deleted) + 1
    IN  [marked |-> {i \in deleted.marked : ~(IsInteger(i) /\ i >= length)},
         length |-> length]

Returned(h, n, value) == [heap |-> h, net |-> n, threw |-> NoError, value |-> value]
Threw(h, n, error) == [heap |-> h, net |-> n, threw |-> error, value |-> Undefined]

\* A call made outside any try block: what it throws leaves the calling method too,
\* and when it returns r the method goes on as F(r).
Try(r, F(_)) == IF r.threw # NoError THEN r ELSE F(r)

\* AddPlace with this.placeNames[nameId] = true moved before new Place(...).
AddPlaceMarkingFirst(h, n, nameId, tokens) ==
    LET name == IF nameId = AUTO_NAME_ID \/ NameTaken(n.placeNames, nameId)
                THEN n.placeNames.length ELSE nameId
        error == PlaceConstructor(Len(n.places), name, tokens)
        place == Len(h) + 1
        marked == [n EXCEPT !.placeNames = MarkName(@, name)]
    IN  IF error # NoError THEN Threw(h, marked, error)
        ELSE Returned(Append(h, NewPlace(Len(n.places), name, tokens)),
                      [marked EXCEPT !.places = Append(@, place)], place)

\* PetriNet.addPlace(nameId, tokens)
AddPlace(h, n, nameId, tokens) ==
    LET name == IF nameId = AUTO_NAME_ID \/ NameTaken(n.placeNames, nameId)
                THEN n.placeNames.length ELSE nameId
        error == PlaceConstructor(Len(n.places), name, tokens)
        place == Len(h) + 1
    IN  IF error # NoError THEN Threw(h, n, error)
        ELSE Returned(Append(h, NewPlace(Len(n.places), name, tokens)),
                      [n EXCEPT !.places = Append(@, place),
                                !.placeNames = MarkName(@, name)],
                      place)

\* PetriNet.addTransition(nameId, label)
AddTransition(h, n, nameId, label) ==
    LET name == IF nameId = AUTO_NAME_ID \/ NameTaken(n.transitionNames, nameId)
                THEN n.transitionNames.length ELSE nameId
        error == TransitionConstructor(Len(n.transitions), name, label)
        transition == Len(h) + 1
    IN  IF error # NoError THEN Threw(h, n, error)
        ELSE Returned(Append(h, NewTransition(Len(n.transitions), name, label)),
                      [n EXCEPT !.transitions = Append(@, transition),
                                !.transitionNames = MarkName(@, name)],
                      transition)

\* PetriNet.addEdge(from, to, weight)
AddEdge(h, n, from, to, weight) ==
    IF from \notin DOMAIN h \/ to \notin DOMAIN h THEN Threw(h, n, ERROR_UNDEFINED)
    ELSE IF At(n.places, h[from].id) # from /\ At(n.transitions, h[from].id) # from
    THEN Threw(h, n, ERROR_UNRELATED_FROM)
    ELSE IF At(n.places, h[to].id) # to /\ At(n.transitions, h[to].id) # to
    THEN Threw(h, n, ERROR_UNRELATED_TO)
    ELSE
        LET r == EdgeConstructor(h, Len(n.edges), from, to, weight) IN
        IF r.threw # NoError THEN Threw(r.heap, n, r.threw)
        ELSE Returned(r.heap, [n EXCEPT !.edges = Append(@, Len(r.heap))], Len(r.heap))

\* PetriNet.removeEdge(edge)
RemoveEdge(h, n, edge) ==
    IF ~IsEdge(h, edge) THEN Threw(h, n, "Cannot remove a non-edge.")
    ELSE IF At(n.edges, h[edge].id) # edge THEN Threw(h, n, ERROR_UNRELATED_REMOVE)
    ELSE
        LET r1 == NodeRemoveEdge(h, h[edge].from, edge) IN
        IF r1.threw # NoError THEN Threw(r1.heap, n, r1.threw)
        ELSE
            LET r2 == NodeRemoveEdge(r1.heap, h[edge].to, edge) IN
            IF r2.threw # NoError THEN Threw(r2.heap, n, r2.threw)
            ELSE
                LET otherEdge == n.edges[Len(n.edges)]
                    id == h[edge].id
                IN  Returned([r2.heap EXCEPT ![otherEdge].id = id],
                             [n EXCEPT !.edges = Pop([@ EXCEPT ![id + 1] = otherEdge])],
                             Undefined)

\* list.forEach(edge => this.removeEdge(edge)), from position i of the list on
RECURSIVE RemoveEdges(_, _, _, _)
RemoveEdges(h, n, list, i) ==
    IF i > Len(list) THEN Returned(h, n, Undefined)
    ELSE
        Try(RemoveEdge(h, n, list[i]),
            LAMBDA r : RemoveEdges(r.heap, r.net, list, i + 1))

\* node.in.slice().forEach(...); node.out.slice().forEach(...);
RemoveIncidentEdges(h, n, node) ==
    Try(RemoveEdges(h, n, h[node].in, 1),
        LAMBDA r1 : RemoveEdges(r1.heap, r1.net, r1.heap[node].out, 1))

\* RemovePlace without otherPlace.setId(place.id).
RemovePlaceKeepingId(h, n, place) ==
    IF ~IsPlace(h, place) THEN Threw(h, n, "Cannot remove a non-place.")
    ELSE IF At(n.places, h[place].id) # place THEN Threw(h, n, ERROR_UNRELATED_PLACE)
    ELSE
        Try(RemoveIncidentEdges(h, n, place), LAMBDA r :
            LET otherPlace == r.net.places[Len(r.net.places)]
                id == r.heap[place].id
            IN  Returned(r.heap,
                         [r.net EXCEPT !.places = Pop([@ EXCEPT ![id + 1] = otherPlace]),
                                       !.placeNames = FreeName(@, r.heap[place].nameId)],
                         Undefined))

\* PetriNet.removePlace(place)
RemovePlace(h, n, place) ==
    IF ~IsPlace(h, place) THEN Threw(h, n, "Cannot remove a non-place.")
    ELSE IF At(n.places, h[place].id) # place THEN Threw(h, n, ERROR_UNRELATED_PLACE)
    ELSE
        Try(RemoveIncidentEdges(h, n, place), LAMBDA r :
            LET otherPlace == r.net.places[Len(r.net.places)]
                id == r.heap[place].id
            IN  Returned([r.heap EXCEPT ![otherPlace].id = id],
                         [r.net EXCEPT !.places = Pop([@ EXCEPT ![id + 1] = otherPlace]),
                                       !.placeNames = FreeName(@, r.heap[place].nameId)],
                         Undefined))

\* PetriNet.removeTransition(transition)
RemoveTransition(h, n, transition) ==
    IF ~IsTransition(h, transition) THEN Threw(h, n, "Cannot remove a non-transition.")
    ELSE IF At(n.transitions, h[transition].id) # transition
    THEN Threw(h, n, ERROR_UNRELATED_TRANSITION)
    ELSE
        Try(RemoveIncidentEdges(h, n, transition), LAMBDA r :
            LET otherTransition == r.net.transitions[Len(r.net.transitions)]
                id == r.heap[transition].id
            IN  Returned([r.heap EXCEPT ![otherTransition].id = id],
                         [r.net EXCEPT
                             !.transitions = Pop([@ EXCEPT ![id + 1] = otherTransition]),
                             !.transitionNames = FreeName(@, r.heap[transition].nameId)],
                         Undefined))

(***************************************************************************)
(* PetriNet: the classification predicates.                                *)
(***************************************************************************)
\* IsCCSNet with `<= 1` in the place of `=== 1`.
IsCCSNetAllowingNoInput(h, n) ==
    \A i \in DOMAIN n.transitions :
        LET transition == h[n.transitions[i]] IN
        Len(transition.in) <= 1 \/ (Len(transition.in) = 2 /\ transition.label = TAU)

\* PetriNet.isCCSNet()
IsCCSNet(h, n) ==
    \A i \in DOMAIN n.transitions :
        LET transition == h[n.transitions[i]] IN
        Len(transition.in) = 1 \/ (Len(transition.in) = 2 /\ transition.label = TAU)

\* Is2TauSynchronisationNet without the test of the label.
Is2TauSynchronisationNetAnyLabel(h, n) ==
    \A i \in DOMAIN n.transitions : Len(h[n.transitions[i]].in) <= 2

\* PetriNet.is2TauSynchronisationNet()
Is2TauSynchronisationNet(h, n) ==
    \A i \in DOMAIN n.transitions :
        LET transition == h[n.transitions[i]] IN
        Len(transition.in) < 2 \/ (Len(transition.in) = 2 /\ transition.label = TAU)

\* (reverse ? node.in : node.out).forEach(edge => { ... }) of bfs, from edge i of the
\* list on; `search` holds visitedPlaces, visitedTransitions (the ids set to true)
\* and pending
RECURSIVE BfsEdges(_, _, _, _, _, _)
BfsEdges(h, node, list, reverse, i, search) ==
    IF i > Len(list) THEN search
    ELSE
        LET next == IF reverse THEN h[list[i]].from ELSE h[list[i]].to
            visited == IF IsPlace(h, node) THEN "visitedTransitions" ELSE "visitedPlaces"
        IN  BfsEdges(h, node, list, reverse, i + 1,
                     IF h[next].id \in search[visited] THEN search
                     ELSE [search EXCEPT ![visited] = @ \cup {h[next].id},
                                         !.pending = Append(@, next)])

\* while (pending.length) { const node = pending.pop(); ... } of bfs
RECURSIVE BfsLoop(_, _, _)
BfsLoop(h, reverse, search) ==
    IF search.pending = <<>> THEN search
    ELSE
        LET node == search.pending[Len(search.pending)] IN
        BfsLoop(h, reverse,
                BfsEdges(h, node, IF reverse THEN h[node].in ELSE h[node].out, reverse, 1,
                         [search EXCEPT !.pending = Pop(@)]))

\* PetriNet.bfs(start, reverse)
Bfs(h, n, start, reverse) ==
    LET search == BfsLoop(h, reverse,
                          [visitedPlaces |-> {h[start].id}, visitedTransitions |-> {},
                           pending |-> <<start>>])
    IN  /\ \A i \in DOMAIN n.places : h[n.places[i]].id \in search.visitedPlaces
        /\ \A i \in DOMAIN n.transitions :
               h[n.transitions[i]].id \in search.visitedTransitions

\* IsWorkflowNet without the search backwards from the sink.
IsWorkflowNetForwardOnly(h, n) ==
    LET sources == SelectSeq(n.places, LAMBDA place : Len(h[place].in) = 0)
        sinks == SelectSeq(n.places, LAMBDA place : Len(h[place].out) = 0)
    IN  IF Len(sources) # 1 THEN FALSE
        ELSE IF Len(sinks) # 1 THEN FALSE
        ELSE Bfs(h, n, sources[1], FALSE)

\* PetriNet.isWorkflowNet()
IsWorkflowNet(h, n) ==
    LET sources == SelectSeq(n.places, LAMBDA place : Len(h[place].in) = 0)
        sinks == SelectSeq(n.places, LAMBDA place : Len(h[place].out) = 0)
    IN  IF Len(sources) # 1 THEN FALSE
        ELSE IF Len(sinks) # 1 THEN FALSE
        ELSE Bfs(h, n, sources[1], FALSE) /\ Bfs(h, n, sinks[1], TRUE)

\* IsFreeChoiceNet with transition.in.some in the place of transition.in.every.
IsFreeChoiceNetSome(h, n) ==
    \A i \in DOMAIN n.transitions :
        LET transition == h[n.transitions[i]] IN
        \/ Len(transition.in) <= 1
        \/ \E j \in DOMAIN transition.in : Len(h[h[transition.in[j]].from].out) = 1

\* PetriNet.isFreeChoiceNet()
IsFreeChoiceNet(h, n) ==
    \A i \in DOMAIN n.transitions :
        LET transition == h[n.transitions[i]] IN
        \/ Len(transition.in) <= 1
        \/ \A j \in DOMAIN transition.in : Len(h[h[transition.in[j]].from].out) = 1

\* new Set(place.out.map(edge => edge.to))
TransitionSet(h, place) == {h[h[place].out[i]].to : i \in DOMAIN h[place].out}

\* CheckFeedingPlaces without otherPlace.out.every(edge => transitionSet.has(edge.to)).
RECURSIVE CheckFeedingPlacesByLength(_, _, _, _, _)
CheckFeedingPlacesByLength(h, place, transition, j, checked) ==
    IF j > Len(h[transition].in) THEN [every |-> TRUE, checked |-> checked]
    ELSE
        LET otherPlace == h[h[transition].in[j]].from
            marked == checked \cup {h[otherPlace].id}
        IN  IF Len(h[otherPlace].out) = Len(h[place].out)
            THEN CheckFeedingPlacesByLength(h, place, transition, j + 1, marked)
            ELSE [every |-> FALSE, checked |-> marked]

\* transition.in.every(edge => ...) of isGroupChoiceNet, from position j of
\* transition.in on, with the places marked as checked so far
RECURSIVE CheckFeedingPlaces(_, _, _, _, _)
CheckFeedingPlaces(h, place, transition, j, checked) ==
    IF j > Len(h[transition].in) THEN [every |-> TRUE, checked |-> checked]
    ELSE
        LET otherPlace == h[h[transition].in[j]].from
            marked == checked \cup {h[otherPlace].id}
        IN  IF /\ Len(h[otherPlace].out) = Len(h[place].out)
               /\ \A k \in DOMAIN h[otherPlace].out :
                      h[h[otherPlace].out[k]].to \in TransitionSet(h, place)
            THEN CheckFeedingPlaces(h, place, transition, j + 1, marked)
            ELSE [every |-> FALSE, checked |-> marked]

\* place.out.every(edge => ...) of isGroupChoiceNet, from position i of place.out on
RECURSIVE CheckTransitionSet(_, _, _, _)
CheckTransitionSet(h, place, i, checked) ==
    IF i > Len(h[place].out) THEN [every |-> TRUE, checked |-> checked]
    ELSE
        LET r == CheckFeedingPlaces(h, place, h[h[place].out[i]].to, 1, checked) IN
        IF r.every THEN CheckTransitionSet(h, place, i + 1, r.checked) ELSE r

\* this.places.every(place => ...) of isGroupChoiceNet, from position k of places on
RECURSIVE CheckPlaces(_, _, _, _)
CheckPlaces(h, n, k, checked) ==
    IF k > Len(n.places) THEN TRUE
    ELSE IF h[n.places[k]].id \in checked THEN CheckPlaces(h, n, k + 1, checked)
    ELSE
        LET r == CheckTransitionSet(h, n.places[k], 1, checked) IN
        r.every /\ CheckPlaces(h, n, k + 1, r.checked)

\* PetriNet.isGroupChoiceNet()
IsGroupChoiceNet(h, n) == CheckPlaces(h, n, 1, {})

(***************************************************************************)
(* PetriNet.to2TauSynchronisationNet.                                      *)
(***************************************************************************)
Min(a, b) == IF a <= b THEN a ELSE b
Max(a, b) == IF a >= b THEN a ELSE b

\* The values of Math.floor(i * Math.random()), Math.random() being in [0, 1).
FloorOfRandomTimes(i) == IF i > 0 THEN 0..(i - 1) ELSE i..0

\* OrderPairs without `+ (first <= second)`.
OrderPairsUnadjusted(i) ==
    {<<Min(first, second), Max(first, second)>> :
        first \in FloorOfRandomTimes(i), second \in FloorOfRandomTimes(i - 1)}

\* The two numbers pushed on `order` at step i of the pattern loop.
OrderPairs(i) ==
    {<<Min(first, second), Max(first, second + (IF first <= second THEN 1 ELSE 0))>> :
        first \in FloorOfRandomTimes(i), second \in FloorOfRandomTimes(i - 1)}

\* Orders with `i >= 1` in the place of `i >= done`.
RECURSIVE OrdersIgnoringDone(_, _)
OrdersIgnoringDone(i, done) ==
    IF i < 1 THEN {<<>>}
    ELSE {pair \o rest : pair \in OrderPairs(i), rest \in OrdersIgnoringDone(i - 1, done)}

\* for (let i = ...; i >= done; i--) order.push(...): the arrays `order` the loop
\* can build from step i on
RECURSIVE Orders(_, _)
Orders(i, done) ==
    IF i < done THEN {<<>>}
    ELSE {pair \o rest : pair \in OrderPairs(i), rest \in Orders(i - 1, done)}

\* CopyPlaces that leaves the tokens behind.
RECURSIVE CopyPlacesUnmarked(_, _, _, _)
CopyPlacesUnmarked(h, this, petriNet, i) ==
    IF i > Len(this.places) THEN Returned(h, petriNet, Undefined)
    ELSE
        Try(AddPlace(h, petriNet, h[this.places[i]].nameId, 0),
            LAMBDA r : CopyPlacesUnmarked(r.heap, this, r.net, i + 1))

\* this.places.forEach(place => petriNet.addPlace(place.nameId, place.tokens)), from place i on
RECURSIVE CopyPlaces(_, _, _, _)
CopyPlaces(h, this, petriNet, i) ==
    IF i > Len(this.places) THEN Returned(h, petriNet, Undefined)
    ELSE
        Try(AddPlace(h, petriNet, h[this.places[i]].nameId, h[this.places[i]].tokens),
            LAMBDA r : CopyPlaces(r.heap, this, r.net, i + 1))

\* this.transitions.forEach(transition => petriNet.addTransition(...)), from transition i on
RECURSIVE CopyTransitions(_, _, _, _)
CopyTransitions(h, this, petriNet, i) ==
    IF i > Len(this.transitions) THEN Returned(h, petriNet, Undefined)
    ELSE
        Try(AddTransition(h, petriNet, h[this.transitions[i]].nameId,
                          h[this.transitions[i]].label),
            LAMBDA r : CopyTransitions(r.heap, this, r.net, i + 1))

\* The edges visited by nodes.forEach(node => node.out.forEach(...)), in order.
RECURSIVE OutgoingEdges(_, _, _)
OutgoingEdges(h, nodes, i) ==
    IF i > Len(nodes) THEN <<>> ELSE h[nodes[i]].out \o OutgoingEdges(h, nodes, i + 1)

\* petriNet.addEdge(petriNet.places[edge.from.id], petriNet.transitions[edge.to.id],
\* edge.weight) for the outgoing edges of the places, from edge i of the list on
RECURSIVE CopyPlaceEdges(_, _, _, _)
CopyPlaceEdges(h, petriNet, list, i) ==
    IF i > Len(list) THEN Returned(h, petriNet, Undefined)
    ELSE
        LET edge == h[list[i]] IN
        Try(AddEdge(h, petriNet, At(petriNet.places, h[edge.from].id),
                    At(petriNet.transitions, h[edge.to].id), edge.weight),
            LAMBDA r : CopyPlaceEdges(r.heap, r.net, list, i + 1))

\* the same for the outgoing edges of the transitions
RECURSIVE CopyTransitionEdges(_, _, _, _)
CopyTransitionEdges(h, petriNet, list, i) ==
    IF i > Len(list) THEN Returned(h, petriNet, Undefined)
    ELSE
        LET edge == h[list[i]] IN
        Try(AddEdge(h, petriNet, At(petriNet.transitions, h[edge.from].id),
                    At(petriNet.places, h[edge.to].id), edge.weight),
            LAMBDA r : CopyTransitionEdges(r.heap, r.net, list, i + 1))

\* // Copy Petri net.
\* No copy: the net itself stands for its copy.
CopyPetriNetSharing(h, this) == Returned(h, this, Undefined)

CopyPetriNet(h, this) ==
    Try(CopyPlaces(h, this, NewPetriNet, 1), LAMBDA r1 :
    Try(CopyTransitions(r1.heap, this, r1.net, 1), LAMBDA r2 :
    Try(CopyPlaceEdges(r2.heap, r2.net, OutgoingEdges(h, this.places, 1), 1), LAMBDA r3 :
        CopyTransitionEdges(r3.heap, r3.net, OutgoingEdges(h, this.transitions, 1), 1))))

\* transition.in.length <= (transition.label === "τ" ? 2 : 1)
WithinLimit(transition) == Len(transition.in) <= (IF transition.label = TAU THEN 2 ELSE 1)

\* Done with `some` in the place of `every`.
DoneIfSomeTau(h, transitions) ==
    IF \E i \in DOMAIN transitions : h[transitions[i]].label = TAU THEN 2 ELSE 1

\* transitions.every(transition => transition.label === "τ") ? 2 : 1
Done(h, transitions) ==
    IF \A i \in DOMAIN transitions : h[transitions[i]].label = TAU THEN 2 ELSE 1

\* places.forEach(place => place.out = []);
\* transitions.forEach(transition => transition.in = []);
ClearGroup(h, places, transitions) ==
    LET cleared == [ref \in DOMAIN h |->
                       IF ref \in Range(transitions) THEN [h[ref] EXCEPT !.in = <<>>]
                       ELSE IF ref \in Range(places) THEN [h[ref] EXCEPT !.out = <<>>]
                       ELSE h[ref]]
    IN  SubSeq(cleared, 1, Len(cleared))

\* The body of the pairing loop for the pair at order[i], order[i + 1]; the value
\* returned is the working list `places` after it.
SynchronisePair(h, petriNet, places, order, i) ==
    Try(AddTransition(h, petriNet, AUTO_NAME_ID, TAU), LAMBDA newTransition :
    Try(AddPlace(newTransition.heap, newTransition.net, AUTO_NAME_ID, 0), LAMBDA newPlace :
    Try(AddEdge(newPlace.heap, newPlace.net,
                At(places, At(order, i)), newTransition.value, 1), LAMBDA r3 :
    Try(AddEdge(r3.heap, r3.net,
                At(places, At(order, i + 1)), newTransition.value, 1), LAMBDA r4 :
    Try(AddEdge(r4.heap, r4.net, newTransition.value, newPlace.value, 1), LAMBDA r5 :
        LET replaced == [places EXCEPT ![At(order, i) + 1] = newPlace.value]
            moved == [replaced EXCEPT ![At(order, i + 1) + 1] = replaced[Len(replaced)]]
        IN  Returned(r5.heap, r5.net, Pop(moved)))))))

\* for (let i = 0; i < order.length; i += 2) { ... }, from step i on
RECURSIVE SynchronisePairs(_, _, _, _, _)
SynchronisePairs(h, petriNet, places, order, i) ==
    IF i >= Len(order) THEN Returned(h, petriNet, places)
    ELSE
        Try(SynchronisePair(h, petriNet, places, order, i),
            LAMBDA r : SynchronisePairs(r.heap, r.net, r.value, order, i + 2))

\* ConnectGroup with an edge to the first transition only.
RECURSIVE ConnectGroupToFirst(_, _, _, _, _, _)
ConnectGroupToFirst(h, petriNet, places, transitions, i, j) ==
    IF i > Len(places) THEN Returned(h, petriNet, Undefined)
    ELSE
        Try(AddEdge(h, petriNet, places[i], transitions[1], 1),
            LAMBDA r : ConnectGroupToFirst(r.heap, r.net, places, transitions, i + 1, j))

\* places.forEach(place => transitions.forEach(transition =>
\*     petriNet.addEdge(place, transition, 1))), from place i and transition j on
RECURSIVE ConnectGroup(_, _, _, _, _, _)
ConnectGroup(h, petriNet, places, transitions, i, j) ==
    IF i > Len(places) THEN Returned(h, petriNet, Undefined)
    ELSE IF j > Len(transitions) THEN ConnectGroup(h, petriNet, places, transitions, i + 1, 1)
    ELSE
        Try(AddEdge(h, petriNet, places[i], transitions[j], 1),
            LAMBDA r : ConnectGroup(r.heap, r.net, places, transitions, i, j + 1))

\* The places feeding the transition: transition.in.map(edge => edge.from), a new
\* array (a sequence of its own, which the pairing loop then changes)
FeedingPlaces(h, transition) ==
    LET from == [i \in DOMAIN h[transition].in |-> h[h[transition].in[i]].from]
    IN  SubSeq(from, 1, Len(from))

\* places[0].out.map(edge => edge.to)
GroupTransitions(h, places) ==
    LET to == [i \in DOMAIN h[places[1]].out |-> h[h[places[1]].out[i]].to]
    IN  SubSeq(to, 1, Len(to))

\* The rewriting of the group of one transition over its limit, for one
\* synchronisation pattern `order`.
RewriteGroup(h, petriNet, transition, order) ==
    LET places == FeedingPlaces(h, transition)
        transitions == GroupTransitions(h, places)
    IN  Try(SynchronisePairs(ClearGroup(h, places, transitions), petriNet,
                             places, order, 0),
            LAMBDA r : ConnectGroup(r.heap, r.net, r.value, transitions, 1, 1))

\* Try for a method whose outcomes are a set: what r throws is the one outcome,
\* else the outcomes are F(r).
Outcomes(r, F(_)) == IF r.threw # NoError THEN {r} ELSE F(r)

\* petriNet.transitions.forEach(transition => { ... }) over the transitions the
\* array `list` had when forEach started, from transition k on: the outcomes
\* the random draws allow
RECURSIVE RewriteGroups(_, _, _, _)
RewriteGroups(h, petriNet, list, k) ==
    IF k > Len(list) THEN {Returned(h, petriNet, Undefined)}
    ELSE IF WithinLimit(h[list[k]]) THEN RewriteGroups(h, petriNet, list, k + 1)
    ELSE
        LET places == FeedingPlaces(h, list[k])
            done == Done(h, GroupTransitions(h, places))
        IN  UNION {Outcomes(RewriteGroup(h, petriNet, list[k], order),
                            LAMBDA r : RewriteGroups(r.heap, r.net, list, k + 1)) :
                   order \in Orders(Len(places) - 1, done)}

\* To2TauSynchronisationNet that copies the net before it checks it.
To2TauSynchronisationNetCopyingFirst(h, this) ==
    LET is2TauSynchronisationNet == Is2TauSynchronisationNet(h, this) IN
    Outcomes(CopyPetriNet(h, this), LAMBDA copy :
        IF ~is2TauSynchronisationNet /\ ~IsGroupChoiceNet(h, this)
        THEN {Threw(copy.heap, copy.net, ERROR_NOT_TRANSFORMABLE)}
        ELSE IF is2TauSynchronisationNet THEN {copy}
        ELSE RewriteGroups(copy.heap, copy.net, copy.net.transitions, 1))

\* PetriNet.to2TauSynchronisationNet() on the net `this`: the outcomes the random
\* draws allow; `net` is the local petriNet, the net returned unless it threw.
To2TauSynchronisationNet(h, this) ==
    LET is2TauSynchronisationNet == Is2TauSynchronisationNet(h, this) IN
    IF ~is2TauSynchronisationNet /\ ~IsGroupChoiceNet(h, this)
    THEN {Threw(h, Undefined, ERROR_NOT_TRANSFORMABLE)}
    ELSE
        Outcomes(CopyPetriNet(h, this), LAMBDA copy :
            IF is2TauSynchronisationNet THEN {copy}
            ELSE RewriteGroups(copy.heap, copy.net, copy.net.transitions, 1))

(***************************************************************************)
(* The CCS abstract syntax tree (ccs.js).  A constructor that throws       *)
(* yields Thrown(error), which every enclosing construction passes on.     *)
(***************************************************************************)
Thrown(error) == [type |-> "threw", error |-> error]
IsThrown(term) == term.type = "threw"

ActionTypes == {"InputAction", "CoAction", "InternalAction"}
ProcessTypes == {"Inaction", "Prefix", "Choice", "Parallel", "Exponent", "Restriction",
                 "Constant"}

\* The first element of the array whose construction threw, if any.
HasThrown(array) == \E i \in DOMAIN array : IsThrown(array[i])
FirstThrown(array) ==
    array[CHOOSE i \in DOMAIN array :
              IsThrown(array[i]) /\ \A j \in 1..(i - 1) : ~IsThrown(array[j])]

\* new InputAction(name)
InputAction(name) ==
    IF ~ActionNamePattern(name) THEN Thrown("Action name must be a non-empty string in camelCase.")
    ELSE [type |-> "InputAction", name |-> name]

\* new CoAction(name)
CoAction(name) ==
    IF ~ActionNamePattern(name) THEN Thrown("Action name must be a string in camelCase.")
    ELSE [type |-> "CoAction", name |-> name]

\* new InternalAction()
InternalAction == [type |-> "InternalAction"]

\* new Inaction()
Inaction == [type |-> "Inaction"]

\* new Prefix(action, process)
Prefix(action, process) ==
    IF IsThrown(action) THEN action
    ELSE IF IsThrown(process) THEN process
    ELSE IF action.type \notin ActionTypes THEN Thrown("Prefix action must be an action.")
    ELSE IF process.type \notin ProcessTypes THEN Thrown("Prefix process must be a process.")
    ELSE [type |-> "Prefix", action |-> action, process |-> process]

\* new Choice(choices)
Choice(choices) ==
    IF HasThrown(choices) THEN FirstThrown(choices)
    ELSE IF Len(choices) < 2 \/ \E i \in DOMAIN choices : choices[i].type # "Prefix"
    THEN Thrown("Choices must be given an array of prefixes of length at least two.")
    ELSE [type |-> "Choice", choices |-> choices]

\* new Parallel(processes)
Parallel(processes) ==
    IF HasThrown(processes) THEN FirstThrown(processes)
    ELSE IF Len(processes) < 2
            \/ \E i \in DOMAIN processes : processes[i].type \notin ProcessTypes
    THEN Thrown("Parallel processes must be given an array of processes of length at least two.")
    ELSE [type |-> "Parallel", processes |-> processes]

\* new Exponent(process, count)
Exponent(process, count) ==
    IF IsThrown(process) THEN process
    ELSE IF process.type \notin ProcessTypes THEN Thrown("Exponent process must be a process.")
    ELSE IF ~IsInteger(count) \/ count < 0 THEN Thrown("Exponent must be a non-negative integer.")
    ELSE [type |-> "Exponent", process |-> process, count |-> count]

\* new Restriction(action, process)
Restriction(action, process) ==
    IF IsThrown(action) THEN action
    ELSE IF IsThrown(process) THEN process
    ELSE IF action.type # "InputAction"
    THEN Thrown("Restriction action must be an (input) action.")
    ELSE IF process.type \notin ProcessTypes
    THEN Thrown("Restriction process must be a process.")
    ELSE [type |-> "Restriction", action |-> action, process |-> process]

\* new Constant(name)
Constant(name) ==
    IF ~ConstantNamePattern(name) THEN Thrown("Constant name must be a string in PascalCase.")
    ELSE [type |-> "Constant", name |-> name]

\* definitions[name] = process; on an object that keeps its keys in insertion order
SetDefinition(definitions, name, process) ==
    IF \E i \in DOMAIN definitions : definitions[i].name = name
    THEN LET set == [i \in DOMAIN definitions |->
                        IF definitions[i].name = name
                        THEN [name |-> name, process |-> process]
                        ELSE definitions[i]]
         IN  SubSeq(set, 1, Len(set))
    ELSE Append(definitions, [name |-> name, process |-> process])

\* new CCS(definitions, process)
CCSConstructor(definitions, process) ==
    IF \E i \in DOMAIN definitions : ~ConstantNamePattern(definitions[i].name)
    THEN Thrown("The following definition names are not in PascalCase")
    ELSE IF \E i \in DOMAIN definitions : definitions[i].process.type \notin ProcessTypes
    THEN Thrown("The following definitions are not processes")
    ELSE IF process.type \notin ProcessTypes THEN Thrown("Initial process must be a process.")
    ELSE [type |-> "CCS", definitions |-> definitions, process |-> process]

(***************************************************************************)
(* PetriNet.toCCS.                                                         *)
(***************************************************************************)
\* label => label === "τ" ? new InternalAction() : new InputAction(label)
LabelToAction(label) == IF label = TAU THEN InternalAction ELSE InputAction(label)

\* ArrayToProcess without the case of one element.
ArrayToProcessWrappingOne(array, classRef) ==
    IF Len(array) = 0 THEN Inaction
    ELSE IF classRef = "Choice" THEN Choice(array)
    ELSE Parallel(array)

\* arrayToProcess(array, classRef)
ArrayToProcess(array, classRef) ==
    IF Len(array) = 0 THEN Inaction
    ELSE IF Len(array) = 1 THEN array[1]
    ELSE IF classRef = "Choice" THEN Choice(array)
    ELSE Parallel(array)

\* "X_" + node.getName()
ProcessName(h, node) == <<"X", "_">> \o GetName(h, node)

\* The constants made by this.places.forEach(place => placeToProcess[place.id] = ...),
\* in place order.
PlaceConstants(h, this) ==
    LET constants == [i \in DOMAIN this.places |->
                         Constant(ProcessName(h, this.places[i]))]
    IN  SubSeq(constants, 1, Len(constants))

\* placeToProcess[id] after that loop
PlaceToProcess(h, this, id) ==
    LET writers == {i \in DOMAIN this.places : h[this.places[i]].id = id} IN
    IF writers = {} THEN Thrown(ERROR_UNDEFINED)
    ELSE PlaceConstants(h, this)[CHOOSE i \in writers : \A j \in writers : j <= i]

\* transition.out.map(edge => edge.weight === 1 ? ... : new Exponent(..., edge.weight))
OutgoingProcesses(h, this, transition) ==
    LET processes == [i \in DOMAIN h[transition].out |->
                         LET edge == h[h[transition].out[i]] IN
                         IF edge.weight = 1 THEN PlaceToProcess(h, this, h[edge.to].id)
                         ELSE Exponent(PlaceToProcess(h, this, h[edge.to].id), edge.weight)]
    IN  SubSeq(processes, 1, Len(processes))

\* The locals of toCCS before the loop over the transitions.
InitialEncoding ==
    [definitions |-> <<>>, transitionToReplacement |-> <<>>, newActions |-> <<>>,
     transitionGeneratorProcesses |-> <<>>, threw |-> Inaction]

\* array[id] = term, on a sparse array held as a function of the indices set
SetAt(array, id, term) == (id :> term) @@ array

\* The body of this.transitions.forEach(transition => { ... }) of toCCS.
EncodeTransition(h, this, enc, transition) ==
    LET outgoingProcesses == OutgoingProcesses(h, this, transition)
        continuation == ArrayToProcess(outgoingProcesses, "Parallel")
    IN  IF HasThrown(outgoingProcesses)
        THEN [enc EXCEPT !.threw = FirstThrown(outgoingProcesses)]
        ELSE IF Len(h[transition].in) = 0 THEN
            LET name == ProcessName(h, transition)
                definition ==
                    Prefix(LabelToAction(h[transition].label),
                           ArrayToProcess(<<Constant(name)>> \o outgoingProcesses, "Parallel"))
            IN  IF IsThrown(definition) THEN [enc EXCEPT !.threw = definition]
                ELSE [enc EXCEPT
                         !.definitions = SetDefinition(@, name, definition),
                         !.transitionGeneratorProcesses = Append(@, Constant(name))]
        ELSE IF Len(h[transition].in) = 1 THEN
            LET replacement == Prefix(LabelToAction(h[transition].label), continuation) IN
            IF IsThrown(replacement) THEN [enc EXCEPT !.threw = replacement]
            ELSE [enc EXCEPT !.transitionToReplacement =
                                 SetAt(@, h[transition].id, replacement)]
        ELSE
            LET name == <<"s", "_">> \o GetName(h, transition)
                replacement == Prefix(InputAction(name), continuation)
            IN  IF IsThrown(replacement) THEN [enc EXCEPT !.threw = replacement]
                ELSE [enc EXCEPT
                         !.transitionToReplacement = SetAt(@, h[transition].id, replacement),
                         !.newActions = Append(@, name)]

\* this.transitions.forEach(transition => { ... }) of toCCS, from transition i on
RECURSIVE EncodeTransitions(_, _, _, _)
EncodeTransitions(h, this, enc, i) ==
    IF i > Len(this.transitions) \/ IsThrown(enc.threw) THEN enc
    ELSE EncodeTransitions(h, this, EncodeTransition(h, this, enc, this.transitions[i]), i + 1)

\* IsSynchronisationPrefix testing /^s_p\d+$/.
IsSynchronisationPrefixOfPlace(replacement) ==
    /\ replacement.type = "Prefix"
    /\ replacement.action.type = "InputAction"
    /\ Len(replacement.action.name) >= 4
    /\ SubSeq(replacement.action.name, 1, 3) = <<"s", "_", "p">>

\* replacement.action instanceof InputAction && /^s_t\d+$/.test(replacement.action.name)
IsSynchronisationPrefix(replacement) ==
    /\ replacement.type = "Prefix"
    /\ replacement.action.type = "InputAction"
    /\ SyncNamePattern(replacement.action.name)

\* place.out.map(edge => { ... }) of toCCS from edge i of place.out on: the choices
\* and transitionToReplacement after them
RECURSIVE PlaceChoices(_, _, _, _)
PlaceChoices(h, place, i, transitionToReplacement) ==
    IF i > Len(h[place].out)
    THEN [choices |-> <<>>, transitionToReplacement |-> transitionToReplacement]
    ELSE
        LET id == h[h[h[place].out[i]].to].id
            replacement == IF id \in DOMAIN transitionToReplacement
                           THEN transitionToReplacement[id]
                           ELSE Thrown(ERROR_UNDEFINED)
            replaced == IF IsSynchronisationPrefix(replacement)
                        THEN SetAt(transitionToReplacement, id,
                                   Prefix(CoAction(replacement.action.name), Inaction))
                        ELSE transitionToReplacement
            rest == PlaceChoices(h, place, i + 1, replaced)
        IN  [choices |-> <<replacement>> \o rest.choices,
             transitionToReplacement |-> rest.transitionToReplacement]

\* EncodePlaces that defines no process for a place without outgoing edges.
RECURSIVE EncodePlacesWithEdges(_, _, _, _)
EncodePlacesWithEdges(h, this, enc, i) ==
    IF i > Len(this.places) \/ IsThrown(enc.threw) THEN enc
    ELSE
        LET place == this.places[i]
            r == PlaceChoices(h, place, 1, enc.transitionToReplacement)
            definition == ArrayToProcess(r.choices, "Choice")
        IN  EncodePlacesWithEdges(h, this,
                IF IsThrown(definition) THEN [enc EXCEPT !.threw = definition]
                ELSE IF Len(h[place].out) = 0 THEN enc
                ELSE [enc EXCEPT
                         !.definitions = SetDefinition(@, ProcessName(h, place), definition),
                         !.transitionToReplacement = r.transitionToReplacement],
                i + 1)

\* this.places.forEach(place => { ... }) of toCCS, from place i on
RECURSIVE EncodePlaces(_, _, _, _)
EncodePlaces(h, this, enc, i) ==
    IF i > Len(this.places) \/ IsThrown(enc.threw) THEN enc
    ELSE
        LET place == this.places[i]
            r == PlaceChoices(h, place, 1, enc.transitionToReplacement)
            definition == ArrayToProcess(r.choices, "Choice")
        IN  EncodePlaces(h, this,
                IF IsThrown(definition) THEN [enc EXCEPT !.threw = definition]
                ELSE [enc EXCEPT
                         !.definitions = SetDefinition(@, ProcessName(h, place), definition),
                         !.transitionToReplacement = r.transitionToReplacement],
                i + 1)

\* MarkedPlaceProcesses with an Exponent for a single token too.
RECURSIVE MarkedPlaceProcessesAllExponents(_, _, _)
MarkedPlaceProcessesAllExponents(h, this, i) ==
    IF i > Len(this.places) THEN <<>>
    ELSE
        LET place == h[this.places[i]] IN
        (IF place.tokens = 0 THEN <<>>
         ELSE <<Exponent(PlaceToProcess(h, this, place.id), place.tokens)>>)
        \o MarkedPlaceProcessesAllExponents(h, this, i + 1)

\* this.places.filter(place => place.tokens).map(place => place.tokens === 1 ? ... :
\* new Exponent(..., place.tokens)), from place i on
RECURSIVE MarkedPlaceProcesses(_, _, _)
MarkedPlaceProcesses(h, this, i) ==
    IF i > Len(this.places) THEN <<>>
    ELSE
        LET place == h[this.places[i]] IN
        (IF place.tokens = 0 THEN <<>>
         ELSE IF place.tokens = 1 THEN <<PlaceToProcess(h, this, place.id)>>
         ELSE <<Exponent(PlaceToProcess(h, this, place.id), place.tokens)>>)
        \o MarkedPlaceProcesses(h, this, i + 1)

\* array.sort() of an array of strings
RECURSIVE Insert(_, _)
Insert(sorted, name) ==
    IF sorted = <<>> THEN <<name>>
    ELSE IF StringLess(name, Head(sorted)) THEN <<name>> \o sorted
    ELSE <<Head(sorted)>> \o Insert(Tail(sorted), name)

RECURSIVE Sort(_)
Sort(array) ==
    IF array = <<>> THEN <<>> ELSE Insert(Sort(Pop(array)), array[Len(array)])

\* Restrict as reduceRight.
RECURSIVE RestrictFromRight(_, _)
RestrictFromRight(names, process) ==
    IF names = <<>> THEN process
    ELSE RestrictFromRight(Pop(names),
                           Restriction(InputAction(names[Len(names)]), process))

\* names.reduce((process, name) => new Restriction(new InputAction(name), process), initial)
RECURSIVE Restrict(_, _)
Restrict(names, process) ==
    IF names = <<>> THEN process
    ELSE Restrict(Tail(names), Restriction(InputAction(Head(names)), process))

\* PetriNet.toCCS() on the net `this`: the CCS returned, or Thrown(error)
ToCCS(h, this) ==
    IF ~Is2TauSynchronisationNet(h, this) THEN Thrown(ERROR_NOT_2TAU)
    ELSE IF HasThrown(PlaceConstants(h, this)) THEN FirstThrown(PlaceConstants(h, this))
    ELSE
        LET enc1 == EncodeTransitions(h, this, InitialEncoding, 1)
            enc2 == EncodePlaces(h, this, enc1, 1)
            placeProcesses == MarkedPlaceProcesses(h, this, 1)
                              \o enc2.transitionGeneratorProcesses
            initialProcess == Restrict(Sort(enc2.newActions),
                                       ArrayToProcess(placeProcesses, "Parallel"))
        IN  IF IsThrown(enc2.threw) THEN enc2.threw
            ELSE IF HasThrown(placeProcesses) THEN FirstThrown(placeProcesses)
            ELSE IF IsThrown(initialProcess) THEN initialProcess
            ELSE CCSConstructor(enc2.definitions, initialProcess)

(***************************************************************************)
(* GuiPetriNet: the methods the editor adds to PetriNet (positions, DOM    *)
(* elements and the redrawing they trigger are left out).                  *)
(***************************************************************************)
\* names[nameId] = true; names.length = names.lastIndexOf(true) + 1;
Rename(names, nameId) ==
    LET marked == MarkName(names, nameId)
        length == LastIndexOfTrue(marked) + 1
    IN  [marked |-> {i \in marked.marked : ~(IsInteger(i) /\ i >= length)},
         length |-> length]

\* GuiPetriNet.updatePlace(placeId, nameId, tokens)
UpdatePlace(h, n, placeId, nameId, tokens) ==
    LET place == At(n.places, placeId) IN
    IF place = Undefined THEN Threw(h, n, "Unrelated place cannot be updated.")
    ELSE
        LET deleted == [n EXCEPT !.placeNames.marked = @ \ {h[place].nameId}]
            renamed == [h EXCEPT ![place].nameId = nameId]
        IN  IF SetNameIdThrows(nameId) THEN Threw(h, deleted, ERROR_NAME_ID)
            ELSE IF SetTokensThrows(tokens) THEN Threw(renamed, deleted, ERROR_TOKENS)
            ELSE Returned([renamed EXCEPT ![place].tokens = tokens],
                          [deleted EXCEPT !.placeNames = Rename(@, nameId)], Undefined)

\* GuiPetriNet.updateTransition(transitionId, nameId, label)
UpdateTransition(h, n, transitionId, nameId, label) ==
    LET transition == At(n.transitions, transitionId) IN
    IF transition = Undefined THEN Threw(h, n, "Unrelated transition cannot be updated.")
    ELSE
        LET deleted == [n EXCEPT !.transitionNames.marked = @ \ {h[transition].nameId}]
            renamed == [h EXCEPT ![transition].nameId = nameId]
        IN  IF SetNameIdThrows(nameId) THEN Threw(h, deleted, ERROR_NAME_ID)
            ELSE IF SetLabelThrows(label) THEN Threw(renamed, deleted, ERROR_LABEL)
            ELSE Returned([renamed EXCEPT ![transition].label = label],
                          [deleted EXCEPT !.transitionNames = Rename(@, nameId)], Undefined)

\* places.forEach(place => place.out.slice().forEach(edge => this.removeEdge(edge))),
\* from place i on
RECURSIVE RemoveOutgoingEdges(_, _, _, _)
RemoveOutgoingEdges(h, this, places, i) ==
    IF i > Len(places) THEN Returned(h, this, Undefined)
    ELSE
        Try(RemoveEdges(h, this, h[places[i]].out, 1),
            LAMBDA r : RemoveOutgoingEdges(r.heap, r.net, places, i + 1))

\* The body of this.transitions.forEach(transition => { ... }) of
\* update2TauSynchronisationNet for a transition over its limit and one
\* synchronisation pattern `order`.
GuiRewriteGroup(h, this, transition, order) ==
    LET places == FeedingPlaces(h, transition)
        transitions == GroupTransitions(h, places)
    IN  Try(RemoveOutgoingEdges(h, this, places, 1), LAMBDA removed :
        Try(SynchronisePairs(removed.heap, removed.net, places, order, 0), LAMBDA r :
            ConnectGroup(r.heap, r.net, r.value, transitions, 1, 1)))

\* this.transitions.forEach(transition => { ... }) of update2TauSynchronisationNet
\* over the transitions the array `list` had when forEach started, from transition k
\* on: the outcomes the random draws allow
RECURSIVE GuiRewriteGroups(_, _, _, _)
GuiRewriteGroups(h, this, list, k) ==
    IF k > Len(list) THEN {Returned(h, this, TRUE)}
    ELSE IF WithinLimit(h[list[k]]) THEN GuiRewriteGroups(h, this, list, k + 1)
    ELSE
        LET places == FeedingPlaces(h, list[k])
            done == Done(h, GroupTransitions(h, places))
        IN  UNION {Outcomes(GuiRewriteGroup(h, this, list[k], order),
                            LAMBDA r : GuiRewriteGroups(r.heap, r.net, list, k + 1)) :
                   order \in Orders(Len(places) - 1, done)}

\* GuiPetriNet.update2TauSynchronisationNet(petriNet) on a read-only net: the net
\* `this` after this.clear() and the rest, and the boolean returned
Update2TauSynchronisationNet(h, petriNet) ==
    LET is2TauSynchronisationNet == Is2TauSynchronisationNet(h, petriNet) IN
    IF ~is2TauSynchronisationNet /\ ~IsGroupChoiceNet(h, petriNet)
    THEN {Returned(h, NewPetriNet, FALSE)}
    ELSE
        Outcomes(CopyPetriNet(h, petriNet), LAMBDA copy :
            IF is2TauSynchronisationNet THEN {Returned(copy.heap, copy.net, TRUE)}
            ELSE GuiRewriteGroups(copy.heap, copy.net, copy.net.transitions, 1))

\* What GuiCCS shows: this.ccs, this.output, and what update returned.
Null == [type |-> "null"]
CANNOT_BE_ENCODED == "<i>Petri net cannot be encoded</i>"
Shown(ccs) ==
    IF IsThrown(ccs) THEN [threw |-> ccs.error]
    ELSE [threw |-> NoError, ccs |-> ccs, output |-> "toHTML", returned |-> TRUE]

\* GuiCCSUpdate that encodes group-choice nets only.
GuiCCSUpdateOfGroupChoiceOnly(h, petriNet) ==
    IF IsGroupChoiceNet(h, petriNet)
    THEN {IF r.threw # NoError THEN [threw |-> r.threw] ELSE Shown(ToCCS(r.heap, r.net)) :
             r \in To2TauSynchronisationNet(h, petriNet)}
    ELSE {[threw |-> NoError, ccs |-> Null, output |-> CANNOT_BE_ENCODED,
           returned |-> FALSE]}

\* GuiCCS.update(petriNet)
GuiCCSUpdate(h, petriNet) ==
    IF IsGroupChoiceNet(h, petriNet)
    THEN {IF r.threw # NoError THEN [threw |-> r.threw] ELSE Shown(ToCCS(r.heap, r.net)) :
             r \in To2TauSynchronisationNet(h, petriNet)}
    ELSE IF ~Is2TauSynchronisationNet(h, petriNet)
    THEN {[threw |-> NoError, ccs |-> Null, output |-> CANNOT_BE_ENCODED,
           returned |-> FALSE]}
    ELSE {Shown(ToCCS(h, petriNet))}

\* Gui.update(): petriNet2Tau, the CCS shown and buttonExportCCS.disabled after it
GuiUpdate(h, petriNet) ==
    UNION {IF isEncodable.threw # NoError
           THEN {[threw |-> isEncodable.threw, heap |-> isEncodable.heap]}
           ELSE {IF shown.threw # NoError
                 THEN [threw |-> shown.threw, heap |-> isEncodable.heap]
                 ELSE [threw |-> NoError, heap |-> isEncodable.heap,
                       isEncodable |-> isEncodable.value,
                       petriNet2Tau |-> isEncodable.net,
                       ccs |-> shown.ccs, output |-> shown.output,
                       disabled |-> ~shown.returned] :
                 shown \in GuiCCSUpdate(isEncodable.heap,
                                        IF isEncodable.value THEN isEncodable.net
                                        ELSE petriNet)} :
           isEncodable \in Update2TauSynchronisationNet(h, petriNet)}

(***************************************************************************)
(* The caller: one editable net, operated through the public methods.      *)
(* `result` is the outcome of the last call.                               *)
(***************************************************************************)
NoResult == [kind |-> "none"]

\* The outcome of a graph operation r, as the caller sees it.
Outcome(r) ==
    IF r.threw # NoError THEN [kind |-> "threw", error |-> r.threw]
    ELSE [kind |-> "returned", value |-> r.value]

\* The caller holds the outcome of to2TauSynchronisationNet or toCCS; `base` is the
\* size the heap had when it was called.
HoldsValue == result.kind \in {"net", "ccs", "failed", "classes", "again", "gui"}

\* The outcome r of to2TauSynchronisationNet, as the caller sees it.
SynchronisationOutcome(r, base) ==
    IF r.threw # NoError
    THEN [kind |-> "failed", call |-> "to2TauSynchronisationNet", error |-> r.threw,
          base |-> base]
    ELSE [kind |-> "net", value |-> r.net, base |-> base]

\* The outcome of toCCS, as the caller sees it.
EncodingOutcome(ccs, base) ==
    IF IsThrown(ccs)
    THEN [kind |-> "failed", call |-> "toCCS", error |-> ccs.error, base |-> base]
    ELSE [kind |-> "ccs", value |-> ccs, base |-> base]

Apply(r) ==
    /\ heap' = r.heap
    /\ net' = r.net
    /\ result' = Outcome(r)

Init ==
    /\ heap = <<>>
    /\ net = NewPetriNet
    /\ result = NoResult

CallAddPlace ==
    /\ ~HoldsValue
    /\ Len(heap) < MaxObjects
    /\ \E nameId \in NameHints, tokens \in TokenInputs :
           Apply(AddPlace(heap, net, nameId, tokens))

CallAddTransition ==
    /\ ~HoldsValue
    /\ Len(heap) < MaxObjects
    /\ \E nameId \in NameHints, label \in LabelInputs :
           Apply(AddTransition(heap, net, nameId, label))

CallAddEdge ==
    /\ ~HoldsValue
    /\ Len(heap) < MaxObjects
    /\ \E from \in DOMAIN heap, to \in DOMAIN heap, weight \in WeightInputs :
           Apply(AddEdge(heap, net, from, to, weight))

CallRemovePlace ==
    /\ ~HoldsValue
    /\ \E place \in DOMAIN heap : Apply(RemovePlace(heap, net, place))

CallRemoveTransition ==
    /\ ~HoldsValue
    /\ \E transition \in DOMAIN heap : Apply(RemoveTransition(heap, net, transition))

CallRemoveEdge ==
    /\ ~HoldsValue
    /\ \E edge \in DOMAIN heap : Apply(RemoveEdge(heap, net, edge))

Next ==
    \/ CallAddPlace
    \/ CallAddTransition
    \/ CallAddEdge
    \/ CallRemovePlace
    \/ CallRemoveTransition
    \/ CallRemoveEdge

Spec == Init /\ [][Next]_vars

(***************************************************************************)
(* A caller that builds a net without removals (places, then transitions,  *)
(* then edges between nodes not yet connected, discarding the references   *)
(* returned), transforms or encodes it, looks at the outcome and drops it. *)
(***************************************************************************)
Build(r) ==
    /\ r.threw = NoError
    /\ heap' = r.heap
    /\ net' = r.net
    /\ UNCHANGED result

BuildPlace(maxPlaces, nameIds, tokenCounts) ==
    /\ ~HoldsValue
    /\ Len(net.places) < maxPlaces
    /\ net.transitions = <<>>
    /\ net.edges = <<>>
    /\ \E nameId \in nameIds, tokens \in tokenCounts :
           Build(AddPlace(heap, net, nameId, tokens))

BuildTransition(maxTransitions, nameIds, labels) ==
    /\ ~HoldsValue
    /\ Len(net.transitions) < maxTransitions
    /\ net.edges = <<>>
    /\ \E nameId \in nameIds, label \in labels :
           Build(AddTransition(heap, net, nameId, label))

\* The place->transition edges and the transition->place edges of the net.
InputEdges(h, n) == {e \in Range(n.edges) : IsPlace(h, h[e].from)}
OutputEdges(h, n) == {e \in Range(n.edges) : IsTransition(h, h[e].from)}

BuildInputEdge(maxEdges) ==
    /\ ~HoldsValue
    /\ Cardinality(InputEdges(heap, net)) < maxEdges
    /\ OutputEdges(heap, net) = {}
    /\ \E from \in Range(net.places), to \in Range(net.transitions) :
           Build(AddEdge(heap, net, from, to, 1))

BuildOutputEdge(maxEdges, weights) ==
    /\ ~HoldsValue
    /\ Cardinality(OutputEdges(heap, net)) < maxEdges
    /\ \E from \in Range(net.transitions), to \in Range(net.places), weight \in weights :
           Build(AddEdge(heap, net, from, to, weight))

CallTo2TauSynchronisationNet ==
    /\ ~HoldsValue
    /\ \E r \in To2TauSynchronisationNet(heap, net) :
           /\ heap' = r.heap
           /\ result' = SynchronisationOutcome(r, Len(heap))
    /\ UNCHANGED net

CallToCCS ==
    /\ ~HoldsValue
    /\ result' = EncodingOutcome(ToCCS(heap, net), Len(heap))
    /\ UNCHANGED <<heap, net>>

\* The classes of the net, each found by calling its predicate.
Classification(h, n) ==
    [isWorkflowNet |-> IsWorkflowNet(h, n),
     isFreeChoiceNet |-> IsFreeChoiceNet(h, n),
     isGroupChoiceNet |-> IsGroupChoiceNet(h, n),
     isCCSNet |-> IsCCSNet(h, n),
     is2TauSynchronisationNet |-> Is2TauSynchronisationNet(h, n)]

CallClassification ==
    /\ ~HoldsValue
    /\ result' = [kind |-> "classes", value |-> Classification(heap, net),
                  base |-> Len(heap)]
    /\ UNCHANGED <<heap, net>>

\* The caller passes the net it was returned to to2TauSynchronisationNet again and
\* holds both nets: `first` is the net returned before.
CallTo2TauSynchronisationNetAgain ==
    /\ result.kind = "net"
    /\ \E r \in To2TauSynchronisationNet(heap, result.value) :
           /\ heap' = r.heap
           /\ result' = [kind |-> "again", first |-> result.value, value |-> r.net,
                         threw |-> r.threw, base |-> result.base]
    /\ UNCHANGED net

\* The caller drops the outcome; the objects only it referred to are gone.
Drop ==
    /\ HoldsValue
    /\ heap' = SubSeq(heap, 1, result.base)
    /\ result' = NoResult
    /\ UNCHANGED net

SyncLabels == {TAU, <<"a">>}

SyncBuildPlace == BuildPlace(MaxSyncPlaces, {AUTO_NAME_ID}, {0})
SyncBuildTransition == BuildTransition(MaxSyncTransitions, {AUTO_NAME_ID}, SyncLabels)
SyncBuildInputEdge == BuildInputEdge(MaxSyncInputEdges)
SyncBuildOutputEdge == BuildOutputEdge(MaxSyncOutputEdges, {1})

NextSync ==
    \/ SyncBuildPlace
    \/ SyncBuildTransition
    \/ SyncBuildInputEdge
    \/ SyncBuildOutputEdge
    \/ CallTo2TauSynchronisationNet
    \/ CallTo2TauSynchronisationNetAgain
    \/ CallToCCS
    \/ CallClassification
    \/ Drop

SpecSync == Init /\ [][NextSync]_vars

\* The caller of SpecClass: each net of at most MaxClassPlaces places and
\* MaxClassTransitions transitions is classified.
NextClass ==
    \/ BuildPlace(MaxClassPlaces, {AUTO_NAME_ID}, {0})
    \/ BuildTransition(MaxClassTransitions, {AUTO_NAME_ID}, SyncLabels)
    \/ BuildInputEdge(MaxClassInputEdges)
    \/ BuildOutputEdge(MaxClassOutputEdges, {2})
    \/ CallClassification
    \/ Drop

SpecClass == Init /\ [][NextClass]_vars

\* The caller of SpecFlow: each net of at most MaxFlowPlaces places and
\* MaxFlowTransitions transitions, all labelled τ, is classified.
NextFlow ==
    \/ BuildPlace(MaxFlowPlaces, {AUTO_NAME_ID}, {0})
    \/ BuildTransition(MaxFlowTransitions, {AUTO_NAME_ID}, {TAU})
    \/ BuildInputEdge(MaxFlowInputEdges)
    \/ BuildOutputEdge(MaxFlowOutputEdges, {1})
    \/ CallClassification
    \/ Drop

SpecFlow == Init /\ [][NextFlow]_vars

\* The editor's caller: places and transitions are added (with the next free name or
\* the name 2), removed and updated with the names 1 and 2.
CallUpdatePlace ==
    /\ ~HoldsValue
    /\ \E placeId \in 0..Len(net.places), nameId \in {1, 2}, tokens \in TokenInputs :
           Apply(UpdatePlace(heap, net, placeId, nameId, tokens))

CallUpdateTransition ==
    /\ ~HoldsValue
    /\ \E transitionId \in 0..Len(net.transitions), nameId \in {1, 2},
          label \in LabelInputs :
           Apply(UpdateTransition(heap, net, transitionId, nameId, label))

NextUpdate ==
    \/ /\ Len(heap) < MaxUpdateObjects
       /\ \E nameId \in {AUTO_NAME_ID, 2} : Apply(AddPlace(heap, net, nameId, 0))
    \/ /\ Len(heap) < MaxUpdateObjects
       /\ \E nameId \in {AUTO_NAME_ID, 2} : Apply(AddTransition(heap, net, nameId, TAU))
    \/ CallRemovePlace
    \/ CallRemoveTransition
    \/ CallUpdatePlace
    \/ CallUpdateTransition

SpecUpdate == Init /\ [][NextUpdate]_vars

\* The input net has changed and the editor updates what it shows.
CallGuiUpdate ==
    /\ ~HoldsValue
    /\ \E r \in GuiUpdate(heap, net) :
           /\ heap' = r.heap
           /\ result' = [kind |-> "gui", value |-> [r EXCEPT !.heap = Undefined],
                         base |-> Len(heap)]
    /\ UNCHANGED net

\* The caller of SpecGui: each net of at most MaxGuiPlaces places, added with the
\* name 3 (the net gives the next free name when it is taken) and 0 or 2 tokens, and
\* MaxGuiTransitions transitions is given to the synchroniser and to the editor.
NextGui ==
    \/ BuildPlace(MaxGuiPlaces, {3}, {0, 2})
    \/ BuildTransition(MaxGuiTransitions, {AUTO_NAME_ID}, SyncLabels)
    \/ BuildInputEdge(MaxGuiInputEdges)
    \/ BuildOutputEdge(MaxGuiOutputEdges, {2})
    \/ CallTo2TauSynchronisationNet
    \/ CallGuiUpdate
    \/ Drop

SpecGui == Init /\ [][NextGui]_vars

CCSTransitionNameIds == {2, 10}
CCSTokens == {0, 1, 2}
CCSLabels == {TAU, <<"a">>}
CCSWeights == {1, 2}

CCSBuildPlace == BuildPlace(MaxCCSPlaces, {AUTO_NAME_ID}, CCSTokens)
CCSBuildTransition == BuildTransition(MaxCCSTransitions, CCSTransitionNameIds, CCSLabels)
CCSBuildInputEdge == BuildInputEdge(MaxCCSInputEdges)
CCSBuildOutputEdge == BuildOutputEdge(MaxCCSOutputEdges, CCSWeights)

NextCCS ==
    \/ CCSBuildPlace
    \/ CCSBuildTransition
    \/ CCSBuildInputEdge
    \/ CCSBuildOutputEdge
    \/ CallToCCS
    \/ Drop

SpecCCS == Init /\ [][NextCCS]_vars

(***************************************************************************)
(* Properties.                                                             *)
(***************************************************************************)
\* The last call was to2TauSynchronisationNet / toCCS and the caller holds its outcome.
CalledTo2Tau ==
    result.kind = "net" \/ (result.kind = "failed" /\ result.call = "to2TauSynchronisationNet")
CalledToCCS ==
    result.kind = "ccs" \/ (result.kind = "failed" /\ result.call = "toCCS")

\* Some transition has more than 2 incoming edges, or exactly 2 and a label other than τ.
HasTransitionOverLimit(h, n) ==
    \E t \in Range(n.transitions) :
        Len(h[t].in) > 2 \/ (Len(h[t].in) = 2 /\ h[t].label # TAU)

\* C1: for an input net that satisfies is2TauSynchronisationNet or isGroupChoiceNet,
\* whatever the random draws, to2TauSynchronisationNet returns (it does not throw) a
\* net whose transitions all have fewer than 2 incoming edges, or exactly 2 and label τ.
C1_SynchroniserReturns2TauNet ==
    (CalledTo2Tau /\ (Is2TauSynchronisationNet(heap, net) \/ IsGroupChoiceNet(heap, net)))
        => /\ result.kind = "net"
           /\ ~HasTransitionOverLimit(heap, result.value)

\* A group-choice net with two groups over the limit was transformed.
C1_Witness ==
    /\ result.kind = "net"
    /\ HasTransitionOverLimit(heap, net)
    /\ Len(result.value.transitions) > Len(net.transitions) + 1
    /\ Len(net.transitions) = 2
    /\ \A t \in Range(net.transitions) : ~WithinLimit(heap[t])
    /\ Range(FeedingPlaces(heap, net.transitions[1]))
           \cap Range(FeedingPlaces(heap, net.transitions[2])) = {}

\* C2: after any sequence of addPlace, addTransition, addEdge, removePlace,
\* removeTransition and removeEdge calls, successful or failed, every place, transition
\* and edge of the net has an id equal to its index in its collection.
C2_IdsAreIndices ==
    /\ \A i \in DOMAIN net.places : heap[net.places[i]].id = i - 1
    /\ \A i \in DOMAIN net.transitions : heap[net.transitions[i]].id = i - 1
    /\ \A i \in DOMAIN net.edges : heap[net.edges[i]].id = i - 1

\* A removed place whose id was taken over by the place that was last.
C2_Witness ==
    \E removed \in DOMAIN heap, other \in Range(net.places) :
        /\ IsPlace(heap, removed)
        /\ removed \notin Range(net.places)
        /\ other > removed
        /\ heap[other].id = heap[removed].id
        /\ Len(net.places) > heap[other].id

\* The nodes of the net.
Nodes(n) == Range(n.places) \cup Range(n.transitions)

\* C3: after any sequence of add/remove operations, an edge is in the edges collection
\* iff it is in the out list of its from-node, and iff it is in the in list of its
\* to-node; no in/out list of a node of the net holds an edge that is not in edges or
\* that has an endpoint which is not a node of the net.
C3_AdjacencyAgreesWithEdges ==
    /\ \A e \in DOMAIN heap :
           IsEdge(heap, e) =>
               /\ (e \in Range(net.edges)) <=> (e \in Range(heap[heap[e].from].out))
               /\ (e \in Range(net.edges)) <=> (e \in Range(heap[heap[e].to].in))
    /\ \A node \in Nodes(net) :
           \A e \in Range(heap[node].in) \cup Range(heap[node].out) :
               /\ e \in Range(net.edges)
               /\ heap[e].from \in Nodes(net)
               /\ heap[e].to \in Nodes(net)

\* An edge was removed and another one is still in the net.
C3_Witness ==
    /\ net.edges # <<>>
    /\ \E e \in DOMAIN heap : IsEdge(heap, e) /\ e \notin Range(net.edges)

\* The sum of the lengths of the out lists of the nodes.
RECURSIVE SumOfOutLengths(_, _, _)
SumOfOutLengths(h, nodes, i) ==
    IF i > Len(nodes) THEN 0 ELSE Len(h[nodes[i]].out) + SumOfOutLengths(h, nodes, i + 1)

\* C4: in the net returned for a group-choice net that is not a 2-τ-synchronisation
\* net, the edges collection and the adjacency lists agree: every edge in edges is in
\* the out list of its from-node and in the in list of its to-node, and the number of
\* edges equals the sum of the lengths of the out lists.
C4_RewrittenEdgesLeaveEdges ==
    (result.kind = "net" /\ ~Is2TauSynchronisationNet(heap, net))
        => /\ \A e \in Range(result.value.edges) :
                  /\ e \in Range(heap[heap[e].from].out)
                  /\ e \in Range(heap[heap[e].to].in)
           /\ Len(result.value.edges) =
                  SumOfOutLengths(heap, result.value.places \o result.value.transitions, 1)

\* The process that the CCS term defines for the constant `name`.
DefinitionOf(ccs, name) ==
    ccs.definitions[CHOOSE i \in DOMAIN ccs.definitions :
                        ccs.definitions[i].name = name].process

\* The places of the net with an edge to transition t, in place-iteration order.
RECURSIVE PlacesFeeding(_, _, _, _)
PlacesFeeding(h, n, t, i) ==
    IF i > Len(n.places) THEN <<>>
    ELSE (IF \E e \in Range(h[n.places[i]].out) : h[e].to = t
          THEN <<n.places[i]>> ELSE <<>>)
         \o PlacesFeeding(h, n, t, i + 1)

\* The term that the definition of place p holds for its edge to transition t.
TermFor(h, ccs, p, t) ==
    LET definition == DefinitionOf(ccs, ProcessName(h, p))
        i == CHOOSE k \in DOMAIN h[p].out : h[h[p].out[k]].to = t
    IN  IF Len(h[p].out) = 1 THEN definition ELSE definition.choices[i]

\* The synchronisation name of transition t.
SyncName(h, t) == <<"s", "_">> \o GetName(h, t)

\* The transitions of the net with exactly two incoming edges.
SynchronisingTransitions(h, n) == {t \in Range(n.transitions) : Len(h[t].in) = 2}

\* C5: in the result of toCCS, for every transition t with exactly two incoming
\* edges, the definition of the first of its two feeding places (in place-iteration
\* order) holds prefix(CoAction(s_t), Inaction) for t and the definition of the second
\* holds prefix(InputAction(s_t), outgoing composition of t).
C5_FirstPlaceGetsCoAction ==
    result.kind = "ccs" =>
        \A t \in SynchronisingTransitions(heap, net) :
            LET feeding == PlacesFeeding(heap, net, t, 1)
                name == SyncName(heap, t)
            IN  /\ TermFor(heap, result.value, feeding[1], t)
                       = Prefix(CoAction(name), Inaction)
                /\ TermFor(heap, result.value, feeding[2], t)
                       = Prefix(InputAction(name),
                                ArrayToProcess(OutgoingProcesses(heap, net, t), "Parallel"))

\* The number of prefix nodes of the term whose action is `action`.
RECURSIVE CountPrefixes(_, _), CountPrefixesIn(_, _)
CountPrefixes(term, action) ==
    CASE term.type = "Prefix" ->
             (IF term.action = action THEN 1 ELSE 0) + CountPrefixes(term.process, action)
      [] term.type = "Choice" -> CountPrefixesIn(term.choices, action)
      [] term.type = "Parallel" -> CountPrefixesIn(term.processes, action)
      [] term.type \in {"Exponent", "Restriction"} -> CountPrefixes(term.process, action)
      [] OTHER -> 0

CountPrefixesIn(terms, action) ==
    IF terms = <<>> THEN 0
    ELSE CountPrefixes(Head(terms), action) + CountPrefixesIn(Tail(terms), action)

\* The actions of the prefix nodes of the term.
RECURSIVE PrefixActions(_)
PrefixActions(term) ==
    CASE term.type = "Prefix" -> {term.action} \cup PrefixActions(term.process)
      [] term.type = "Choice" ->
             UNION {PrefixActions(term.choices[i]) : i \in DOMAIN term.choices}
      [] term.type = "Parallel" ->
             UNION {PrefixActions(term.processes[i]) : i \in DOMAIN term.processes}
      [] term.type \in {"Exponent", "Restriction"} -> PrefixActions(term.process)
      [] OTHER -> {}

\* The defined processes of the CCS term followed by its initial process.
ProcessesOf(ccs) ==
    [i \in 1..(Len(ccs.definitions) + 1) |->
        IF i <= Len(ccs.definitions) THEN ccs.definitions[i].process ELSE ccs.process]

\* C6: for a 2-τ-synchronisation net, toCCS returns a term in which, for each
\* transition t with two incoming edges, s_t is the action of exactly one InputAction
\* prefix and of exactly one CoAction prefix over all definitions and the initial
\* process, one of the two in the definition of each of the two places feeding t; no
\* other name of the form s_t<N> is the action of a prefix.
C6_SynchronisationNamesPairUp ==
    (CalledToCCS /\ ~HasTransitionOverLimit(heap, net)) =>
        /\ result.kind = "ccs"
        /\ \A t \in SynchronisingTransitions(heap, net) :
               LET name == SyncName(heap, t)
                   feeding == PlacesFeeding(heap, net, t, 1)
                   definition(k) == DefinitionOf(result.value, ProcessName(heap, feeding[k]))
               IN  /\ CountPrefixesIn(ProcessesOf(result.value), InputAction(name)) = 1
                   /\ CountPrefixesIn(ProcessesOf(result.value), CoAction(name)) = 1
                   /\ Len(feeding) = 2
                   /\ \A k \in 1..2 :
                          CountPrefixes(definition(k), InputAction(name))
                              + CountPrefixes(definition(k), CoAction(name)) = 1
        /\ \A i \in DOMAIN ProcessesOf(result.value) :
               \A action \in PrefixActions(ProcessesOf(result.value)[i]) :
                   (action.type \in {"InputAction", "CoAction"} /\ SyncNamePattern(action.name))
                       => \E t \in SynchronisingTransitions(heap, net) :
                              action.name = SyncName(heap, t)

\* A net with two transitions that each synchronise two places, one of them
\* producing tokens, was encoded.
C6_Witness ==
    /\ result.kind = "ccs"
    /\ Cardinality(SynchronisingTransitions(heap, net)) = 2
    /\ \E t \in SynchronisingTransitions(heap, net) : heap[t].out # <<>>

\* Every Choice and Parallel node of the term has at least 2 children.
RECURSIVE HasNoSmallNode(_)
HasNoSmallNode(term) ==
    CASE term.type = "Prefix" -> HasNoSmallNode(term.process)
      [] term.type = "Choice" ->
             /\ Len(term.choices) >= 2
             /\ \A i \in DOMAIN term.choices : HasNoSmallNode(term.choices[i])
      [] term.type = "Parallel" ->
             /\ Len(term.processes) >= 2
             /\ \A i \in DOMAIN term.processes : HasNoSmallNode(term.processes[i])
      [] term.type \in {"Exponent", "Restriction"} -> HasNoSmallNode(term.process)
      [] OTHER -> TRUE

\* The process under the restrictions that wrap the term.
RECURSIVE StripRestrictions(_)
StripRestrictions(term) ==
    IF term.type = "Restriction" THEN StripRestrictions(term.process) ELSE term

\* The number of processes composed in the initial process: one per marked place and
\* one per transition without incoming edges.
InitialProcessCount(h, n) ==
    Cardinality({p \in Range(n.places) : h[p].tokens # 0})
        + Cardinality({t \in Range(n.transitions) : h[t].in = <<>>})

\* A composition of `count` terms as the claim describes it: Inaction for none, the
\* term itself (so neither a Choice nor a Parallel built for it) for one, a node of
\* type `type` with that many children otherwise.
ComposedOf(term, count, type, children) ==
    CASE count = 0 -> term = Inaction
      [] count = 1 -> term.type \in IF type = "Choice" THEN {"Prefix"}
                                    ELSE {"Constant", "Exponent"}
      [] OTHER -> term.type = type /\ Len(term[children]) = count

\* C7: for a 2-τ-synchronisation net toCCS returns a term without a Choice or Parallel
\* node of fewer than 2 children: a place with 0 outgoing edges is defined as Inaction,
\* with 1 as the prefix term of that transition, with 2 or more as a Choice of that many
\* prefixes; the parallel compositions (the initial process, what a transition with
\* incoming edges continues as) are Inaction when empty and the process itself when
\* they hold one process.
C7_NoSmallChoiceOrParallel ==
    (CalledToCCS /\ ~HasTransitionOverLimit(heap, net)) =>
        /\ result.kind = "ccs"
        /\ \A i \in DOMAIN ProcessesOf(result.value) :
               HasNoSmallNode(ProcessesOf(result.value)[i])
        /\ \A p \in Range(net.places) :
               LET definition == DefinitionOf(result.value, ProcessName(heap, p)) IN
               /\ ComposedOf(definition, Len(heap[p].out), "Choice", "choices")
               /\ Len(heap[p].out) >= 2 =>
                      \A i \in DOMAIN definition.choices :
                          definition.choices[i].type = "Prefix"
        /\ ComposedOf(StripRestrictions(result.value.process),
                      InitialProcessCount(heap, net), "Parallel", "processes")
        /\ \A t \in Range(net.transitions) :
               Len(heap[t].in) = 1 =>
                   LET term == TermFor(heap, result.value, heap[heap[t].in[1]].from, t) IN
                   /\ term.type = "Prefix"
                   /\ term.action = LabelToAction(heap[t].label)
                   /\ ComposedOf(term.process, Len(heap[t].out), "Parallel", "processes")

\* A net was encoded in which one place has one outgoing edge and another has two, and
\* whose initial process is a single process.
C7_Witness ==
    /\ result.kind = "ccs"
    /\ \E p, q \in Range(net.places) : Len(heap[p].out) = 1 /\ Len(heap[q].out) = 2
    /\ InitialProcessCount(heap, net) = 1
    /\ \E t \in Range(net.transitions) : Len(heap[t].in) = 1 /\ Len(heap[t].out) = 1

\* The names of the restrictions that wrap the term, the outermost first.
RECURSIVE RestrictionNames(_)
RestrictionNames(term) ==
    IF term.type = "Restriction"
    THEN <<term.action.name>> \o RestrictionNames(term.process)
    ELSE <<>>

\* The restrictions that wrap the initial process are one per synchronisation name.
OneRestrictionPerName(h, n, ccs) ==
    LET names == RestrictionNames(ccs.process) IN
    /\ Len(names) = Cardinality(SynchronisingTransitions(h, n))
    /\ Range(names) = {SyncName(h, t) : t \in SynchronisingTransitions(h, n)}

\* C8: the initial process returned by toCCS is wrapped in exactly one Restriction per
\* synchronisation name, nested in sorted lexicographic order with the smallest name
\* outermost.
C8_SmallestNameOutermost ==
    result.kind = "ccs" =>
        LET names == RestrictionNames(result.value.process) IN
        /\ OneRestrictionPerName(heap, net, result.value)
        /\ \A i, j \in DOMAIN names : i < j => StringLess(names[i], names[j])

\* C8, as the code has it: the initial process returned by toCCS is wrapped in exactly
\* one Restriction per synchronisation name, nested in sorted lexicographic order with
\* the smallest name innermost and the largest name outermost.
C8_LargestNameOutermost ==
    result.kind = "ccs" =>
        LET names == RestrictionNames(result.value.process) IN
        /\ OneRestrictionPerName(heap, net, result.value)
        /\ \A i, j \in DOMAIN names : i < j => StringLess(names[j], names[i])

\* A net whose first transition is t2 and whose second is t10, both synchronising two
\* places, was encoded: s_t10 sorts before s_t2.
C8_Witness ==
    /\ result.kind = "ccs"
    /\ Len(net.transitions) = 2
    /\ \A t \in Range(net.transitions) : Len(heap[t].in) = 2
    /\ heap[net.transitions[1]].nameId = 2
    /\ heap[net.transitions[2]].nameId = 10
    /\ Len(RestrictionNames(result.value.process)) = 2

\* C9: toCCS on a net in which some transition has more than 2 incoming edges, or
\* exactly 2 and a label other than τ, throws the structural error whatever was called
\* before, returns no CCS term and leaves the net as it was.
C9_EncoderRejects ==
    [][(/\ ~HoldsValue
        /\ CalledToCCS'
        /\ HasTransitionOverLimit(heap, net))
           => /\ result'.kind = "failed"
              /\ result'.error = ERROR_NOT_2TAU
              /\ heap' = heap
              /\ net' = net]_vars

\* toCCS has thrown the structural error on a net with a transition of more than 2
\* incoming edges and a labelled transition of exactly 2.
C9_Witness ==
    /\ result.kind = "failed"
    /\ result.call = "toCCS"
    /\ result.error = ERROR_NOT_2TAU
    /\ \E t \in Range(net.transitions) : Len(heap[t].in) > 2
    /\ \E t \in Range(net.transitions) : Len(heap[t].in) = 2 /\ heap[t].label # TAU

\* C10: to2TauSynchronisationNet on a net that satisfies neither
\* is2TauSynchronisationNet nor isGroupChoiceNet throws the structural error, having
\* allocated and modified nothing.
C10_SynchroniserRejects ==
    [][(/\ ~HoldsValue
        /\ CalledTo2Tau'
        /\ ~Is2TauSynchronisationNet(heap, net)
        /\ ~IsGroupChoiceNet(heap, net))
           => /\ result'.kind = "failed"
              /\ result'.error = ERROR_NOT_TRANSFORMABLE
              /\ heap' = heap
              /\ net' = net]_vars

\* to2TauSynchronisationNet has thrown the structural error.
C10_Witness ==
    /\ result.kind = "failed"
    /\ result.call = "to2TauSynchronisationNet"
    /\ result.error = ERROR_NOT_TRANSFORMABLE
    /\ Len(net.edges) >= 3

\* Every object the net n refers to: its places, transitions and edges, the edges in
\* their in and out lists, and the end nodes of those edges.
ObjectsOf(h, n) ==
    LET listed == Nodes(n) \cup Range(n.edges)
        edges == Range(n.edges)
                     \cup UNION {Range(h[node].in) \cup Range(h[node].out) : node \in Nodes(n)}
    IN  listed \cup edges \cup {h[e].from : e \in edges} \cup {h[e].to : e \in edges}

\* C11: a call of to2TauSynchronisationNet (on the net or on a net it returned), of
\* toCCS or of the five classification predicates leaves the net it is called on and
\* every object that existed before the call as they were, and a net that
\* to2TauSynchronisationNet returns refers to no object that existed before the call.
C11_CallsLeaveTheNetAlone ==
    [][((~HoldsValue /\ HoldsValue') \/ result'.kind = "again") =>
           /\ net' = net
           /\ Len(heap') >= Len(heap)
           /\ SubSeq(heap', 1, Len(heap)) = heap
           /\ (result'.kind = "net" \/ (result'.kind = "again" /\ result'.threw = NoError)) =>
                  \A ref \in ObjectsOf(heap', result'.value) : ref > Len(heap)]_vars

\* C11: to2TauSynchronisationNet has returned a net in which it rewrote a transition
\* with more than two incoming edges.
C11_Witness ==
    /\ result.kind = "net"
    /\ HasTransitionOverLimit(heap, net)
    /\ Len(result.value.transitions) > Len(net.transitions)

\* C12: when to2TauSynchronisationNet is applied to a net it returned, the net it
\* returns has as many places, transitions and edges as the net it was given, and
\* satisfies is2TauSynchronisationNet.
C12_SecondCallKeepsCounts ==
    result.kind = "again" =>
        /\ result.threw = NoError
        /\ Len(result.value.places) = Len(result.first.places)
        /\ Len(result.value.transitions) = Len(result.first.transitions)
        /\ Len(result.value.edges) = Len(result.first.edges)
        /\ Is2TauSynchronisationNet(heap, result.value)

\* C13: every edge of the net from a place to a transition has weight 1, and every
\* edge from a transition to a place has an integer weight of at least 1 (addEdge
\* fails, adding no edge, for any other weight).
C13_EdgeWeightsFollowTheRule ==
    \A e \in Range(net.edges) :
        IF IsPlace(heap, heap[e].from) THEN heap[e].weight = 1
        ELSE IsInteger(heap[e].weight) /\ heap[e].weight >= 1

\* C14: the net has at most one edge per ordered pair of nodes; addEdge(from, to, w)
\* on two nodes of the net fails with the multiple-edges error and changes nothing
\* when the net has an edge from `from` to `to`, and succeeds for a place and a
\* transition without such an edge, whether or not there is an edge from `to` to `from`.
C14_OneEdgePerOrderedPair ==
    /\ \A e1, e2 \in Range(net.edges) :
           (heap[e1].from = heap[e2].from /\ heap[e1].to = heap[e2].to) => e1 = e2
    /\ \A from, to \in Nodes(net), weight \in WeightInputs :
           LET r == AddEdge(heap, net, from, to, weight) IN
           IF \E e \in Range(net.edges) : heap[e].from = from /\ heap[e].to = to
           THEN /\ r.threw = (IF IsPlace(heap, from) THEN ERROR_PT ELSE ERROR_TP)
                /\ r.heap = heap
                /\ r.net = net
           ELSE IsPlace(heap, from) # IsPlace(heap, to) =>
                    /\ r.threw = NoError
                    /\ r.net.edges = Append(net.edges, r.value)
                    /\ r.heap[r.value].from = from /\ r.heap[r.value].to = to

\* C14: an addEdge call has failed with the multiple-edges error on a net that has
\* an edge.
C14_Witness ==
    /\ result.kind = "threw"
    /\ result.error \in {ERROR_PT, ERROR_TP}
    /\ Len(net.edges) = 1

\* The call with outcome r failed and left the heap and the net as they are.
FailedChangingNothing(r) == r.threw # NoError /\ r.heap = heap /\ r.net = net

\* C15: in every state of the net, each call that must fail validation fails and
\* leaves every object and the net (collections, ids, adjacency lists, name
\* registries) as they are: removePlace, removeTransition and removeEdge of an object
\* that is not (or no longer) in the net, with the unrelated-reference error when it
\* is of the right kind; addEdge with an end node that is not in the net or with two
\* nodes of one kind; addPlace with negative tokens; addTransition with a label that
\* is neither τ nor a name starting with a lowercase letter.
C15_FailedCallsChangeNothing ==
    /\ \A ref \in DOMAIN heap :
           /\ ref \notin Range(net.places) =>
                  LET r == RemovePlace(heap, net, ref) IN
                  /\ FailedChangingNothing(r)
                  /\ IsPlace(heap, ref) => r.threw = ERROR_UNRELATED_PLACE
           /\ ref \notin Range(net.transitions) =>
                  LET r == RemoveTransition(heap, net, ref) IN
                  /\ FailedChangingNothing(r)
                  /\ IsTransition(heap, ref) => r.threw = ERROR_UNRELATED_TRANSITION
           /\ ref \notin Range(net.edges) =>
                  LET r == RemoveEdge(heap, net, ref) IN
                  /\ FailedChangingNothing(r)
                  /\ IsEdge(heap, ref) => r.threw = ERROR_UNRELATED_REMOVE
    /\ \A from, to \in DOMAIN heap, weight \in WeightInputs :
           (from \notin Nodes(net) \/ to \notin Nodes(net)
                \/ IsPlace(heap, from) = IsPlace(heap, to)) =>
               FailedChangingNothing(AddEdge(heap, net, from, to, weight))
    /\ \A nameId \in NameHints, tokens \in TokenInputs :
           tokens < 0 => FailedChangingNothing(AddPlace(heap, net, nameId, tokens))
    /\ \A nameId \in NameHints, label \in LabelInputs :
           (label # TAU /\ label[1] \notin LowerCase) =>
               FailedChangingNothing(AddTransition(heap, net, nameId, label))

\* C15: removePlace has just failed on a place that was removed from the net before.
C15_Witness ==
    /\ result.kind = "threw"
    /\ result.error = ERROR_UNRELATED_PLACE
    /\ \E ref \in DOMAIN heap : IsPlace(heap, ref) /\ ref \notin Range(net.places)

\* The name indices of the nodes in the list.
NameIdsOf(nodes) == {heap[node].nameId : node \in Range(nodes)}

\* One more than the largest of the name indices in use, index 0 being never given.
FreshNameId(used) == 1 + (CHOOSE i \in used \cup {0} : \A j \in used \cup {0} : j <= i)

\* The name index a new node gets for the hint nameId when `used` are in use.
NameIdFor(nameId, used) ==
    IF nameId = AUTO_NAME_ID \/ nameId \in used THEN FreshNameId(used) ELSE nameId

\* C16: no two places of the net share a name index and no two transitions share one;
\* each registry marks exactly the indices in use (besides index 0, marked from the
\* start) and its length is one more than the largest of them; a node added with a
\* hint that is unset (0) or taken gets the index one more than the largest in use,
\* and with any other hint (one freed by a removal included) the hint itself.
C16_NameIndicesUniqueAndRegistered ==
    /\ \A i, j \in DOMAIN net.places :
           heap[net.places[i]].nameId = heap[net.places[j]].nameId => i = j
    /\ \A i, j \in DOMAIN net.transitions :
           heap[net.transitions[i]].nameId = heap[net.transitions[j]].nameId => i = j
    /\ net.placeNames.marked = NameIdsOf(net.places) \cup {0}
    /\ net.transitionNames.marked = NameIdsOf(net.transitions) \cup {0}
    /\ net.placeNames.length = FreshNameId(NameIdsOf(net.places))
    /\ net.transitionNames.length = FreshNameId(NameIdsOf(net.transitions))
    /\ \A nameId \in NameHints :
           /\ LET r == AddPlace(heap, net, nameId, 0) IN
              r.threw = NoError =>
                  r.heap[r.value].nameId = NameIdFor(nameId, NameIdsOf(net.places))
           /\ LET r == AddTransition(heap, net, nameId, TAU) IN
              r.threw = NoError =>
                  r.heap[r.value].nameId = NameIdFor(nameId, NameIdsOf(net.transitions))

\* C16: a place of the net has the name index of a place removed before, while
\* another place was given a fresh index because its hint was taken.
C16_Witness ==
    /\ \E p \in Range(net.places), q \in DOMAIN heap :
           /\ IsPlace(heap, q) /\ q \notin Range(net.places)
           /\ heap[p].nameId = heap[q].nameId
           /\ p > q
    /\ \E p \in Range(net.places) : heap[p].nameId = 3

\* C17: every place and every transition of the net has a name index that is an
\* integer of at least 1, whatever hints addPlace and addTransition were given.
C17_NameIndicesArePositive ==
    \A node \in Nodes(net) : IsInteger(heap[node].nameId) /\ heap[node].nameId >= 1

\* The net has been classified.
Classified == result.kind = "classes"

\* C18: for every net built, isFreeChoiceNet implies isGroupChoiceNet.
C18_FreeChoiceImpliesGroupChoice ==
    Classified => (result.value.isFreeChoiceNet => result.value.isGroupChoiceNet)

\* C18: a free-choice net with a transition that has two incoming edges has been
\* classified.
C18_Witness ==
    /\ Classified
    /\ result.value.isFreeChoiceNet
    /\ \E t \in Range(net.transitions) : Len(heap[t].in) >= 2

\* Some transition of the net has no incoming edge.
HasTransitionWithoutInput == \E t \in Range(net.transitions) : Len(heap[t].in) = 0

\* C19 (as stated): isCCSNet implies is2TauSynchronisationNet, no transition of a net
\* satisfying is2TauSynchronisationNet has more than 2 incoming edges, and the two
\* predicates differ exactly on the nets that have a transition with 0 incoming edges.
C19_DifferOnNetsWithoutInput ==
    Classified =>
        /\ result.value.isCCSNet => result.value.is2TauSynchronisationNet
        /\ result.value.is2TauSynchronisationNet =>
               \A t \in Range(net.transitions) : Len(heap[t].in) <= 2
        /\ (result.value.isCCSNet # result.value.is2TauSynchronisationNet)
               <=> HasTransitionWithoutInput

\* C19 (amended): isCCSNet implies is2TauSynchronisationNet, no transition of a net
\* satisfying is2TauSynchronisationNet has more than 2 incoming edges, and the two
\* predicates differ exactly on the nets that satisfy is2TauSynchronisationNet and
\* have a transition with 0 incoming edges.
C19_DifferOn2TauNetsWithoutInput ==
    Classified =>
        /\ result.value.isCCSNet => result.value.is2TauSynchronisationNet
        /\ result.value.is2TauSynchronisationNet =>
               \A t \in Range(net.transitions) : Len(heap[t].in) <= 2
        /\ (result.value.isCCSNet # result.value.is2TauSynchronisationNet)
               <=> (result.value.is2TauSynchronisationNet /\ HasTransitionWithoutInput)

\* C19: a net satisfying is2TauSynchronisationNet but not isCCSNet has been
\* classified, one of its transitions having two incoming edges.
C19_Witness ==
    /\ Classified
    /\ result.value.is2TauSynchronisationNet
    /\ ~result.value.isCCSNet
    /\ \E t \in Range(net.transitions) : Len(heap[t].in) = 2

\* The transitions the place has an edge to.
PostSet(place) == {heap[e].to : e \in Range(heap[place].out)}

\* this.places.every(place => ...) of isGroupChoiceNet from position k on, without
\* the test of checked[place.id].
RECURSIVE CheckPlacesWithoutSkipping(_)
CheckPlacesWithoutSkipping(k) ==
    IF k > Len(net.places) THEN TRUE
    ELSE CheckTransitionSet(heap, net.places[k], 1, {}).every
             /\ CheckPlacesWithoutSkipping(k + 1)

\* C20: isGroupChoiceNet is true exactly when the post-sets of every two places of
\* the net are equal or disjoint, and it returns what it would return if no place
\* were skipped as checked.
C20_GroupChoiceIsEqualOrDisjointPostSets ==
    Classified =>
        /\ result.value.isGroupChoiceNet <=>
               \A p, q \in Range(net.places) :
                   PostSet(p) = PostSet(q) \/ PostSet(p) \cap PostSet(q) = {}
        /\ result.value.isGroupChoiceNet <=> CheckPlacesWithoutSkipping(1)

\* C20: a net has been classified in which two places have different post-sets of
\* the same size that overlap.
C20_Witness ==
    /\ Classified
    /\ \E p, q \in Range(net.places) :
           /\ PostSet(p) # PostSet(q)
           /\ PostSet(p) \cap PostSet(q) # {}
           /\ Cardinality(PostSet(p)) = Cardinality(PostSet(q))

\* The nodes that have a directed path (of any length, 0 included) from a node of S.
RECURSIVE ReachableFrom(_)
ReachableFrom(S) ==
    LET next == S \cup {heap[e].to : e \in UNION {Range(heap[node].out) : node \in S}}
    IN  IF next = S THEN S ELSE ReachableFrom(next)

\* The nodes that have a directed path to a node of S.
RECURSIVE Reaching(_)
Reaching(S) ==
    LET next == S \cup {heap[e].from : e \in UNION {Range(heap[node].in) : node \in S}}
    IN  IF next = S THEN S ELSE Reaching(next)

\* The places without incoming edges, and those without outgoing edges.
SourcePlaces == {p \in Range(net.places) : Len(heap[p].in) = 0}
SinkPlaces == {p \in Range(net.places) : Len(heap[p].out) = 0}

\* C21: isWorkflowNet is true exactly when the net has exactly one place without
\* incoming edges, exactly one place without outgoing edges, and every place and
\* every transition has a path from the former and a path to the latter.
C21_WorkflowNetIsOneSourceOneSinkAllOnPaths ==
    Classified =>
        (result.value.isWorkflowNet <=>
            /\ Cardinality(SourcePlaces) = 1
            /\ Cardinality(SinkPlaces) = 1
            /\ Nodes(net) \subseteq ReachableFrom(SourcePlaces)
            /\ Nodes(net) \subseteq Reaching(SinkPlaces))

\* C21: a net of three places in a row has been classified as a workflow net.
C21_Witness ==
    /\ Classified
    /\ result.value.isWorkflowNet
    /\ Len(net.places) = 3
    /\ \E p \in Range(net.places) : Len(heap[p].in) > 0 /\ Len(heap[p].out) > 0

\* The sum of f[x] over the elements x of S.
RECURSIVE SumOver(_, _)
SumOver(f, S) ==
    IF S = {} THEN 0
    ELSE LET x == CHOOSE y \in S : TRUE IN f[x] + SumOver(f, S \ {x})

\* The transition of the input net is over its limit of incoming edges.
OverLimit(t) == Len(heap[t].in) > (IF heap[t].label = TAU THEN 2 ELSE 1)

\* The post-sets of the input net that hold a transition over its limit: one per
\* group of places to rewrite.
GroupsToRewrite ==
    {G \in {PostSet(p) : p \in Range(net.places)} : \E t \in G : OverLimit(t)}

\* n - done for the group of the places with post-set G.
AddedFor(G) ==
    Cardinality({p \in Range(net.places) : PostSet(p) = G})
        - (IF \A t \in G : heap[t].label = TAU THEN 2 ELSE 1)

\* The synchroniser has returned a net for a net that is not a 2-τ-synchronisation net.
Rewritten == result.kind = "net" /\ ~Is2TauSynchronisationNet(heap, net)

C25_PairsAreDistinctAndInBounds ==
    \A t \in Range(net.transitions) :
        OverLimit(t) =>
            LET places == FeedingPlaces(heap, t)
                n == Len(places)
                done == Done(heap, GroupTransitions(heap, places))
            IN  \A order \in Orders(n - 1, done) :
                    /\ Len(order) = 2 * (n - done)
                    /\ \A k \in 0..(n - done - 1) :
                           /\ 0 <= order[2 * k + 1]
                           /\ order[2 * k + 1] < order[2 * k + 2]
                           /\ order[2 * k + 2] <= n - 1 - k

\* C25: a group of four places has been rewritten, in three steps of pairing.
C25_Witness ==
    /\ Rewritten
    /\ \E t \in Range(net.transitions) :
           /\ OverLimit(t)
           /\ Len(heap[t].in) = 4
           /\ heap[t].label # TAU
    /\ Len(result.value.places) = Len(net.places) + 3

\* The node of the net returned that was made for the node of the input net.
CopyOf(node) ==
    IF IsPlace(heap, node) THEN result.value.places[heap[node].id + 1]
    ELSE result.value.transitions[heap[node].id + 1]

\* The transitions and the places of the net returned that the input net has no
\* node for.
AddedTransitions ==
    {result.value.transitions[i] :
        i \in (Len(net.transitions) + 1)..Len(result.value.transitions)}
AddedPlaces ==
    {result.value.places[i] : i \in (Len(net.places) + 1)..Len(result.value.places)}

Kept(e) ==
    \E c \in Range(heap[CopyOf(heap[e].from)].out) :
        /\ heap[c].to = CopyOf(heap[e].to)
        /\ heap[c].weight = heap[e].weight

\* C27: the net returned by the synchroniser holds every place and every transition
\* of the input net at the same id, with the same name index, tokens and label, an
\* edge of the same weight for every edge from a transition to a place, and for every
\* edge from a place whose group is not rewritten; the ids and the name indices of
\* the added nodes are those of no original node of their kind.
C27_OutputKeepsTheInputNet ==
    result.kind = "net" =>
        /\ Len(result.value.places) >= Len(net.places)
        /\ Len(result.value.transitions) >= Len(net.transitions)
        /\ \A p \in Range(net.places) :
               /\ heap[CopyOf(p)].id = heap[p].id
               /\ heap[CopyOf(p)].nameId = heap[p].nameId
               /\ heap[CopyOf(p)].tokens = heap[p].tokens
               /\ PostSet(p) \notin GroupsToRewrite =>
                      \A e \in Range(heap[p].out) : Kept(e)
        /\ \A t \in Range(net.transitions) :
               /\ heap[CopyOf(t)].id = heap[t].id
               /\ heap[CopyOf(t)].nameId = heap[t].nameId
               /\ heap[CopyOf(t)].label = heap[t].label
               /\ \A e \in Range(heap[t].out) : Kept(e)
        /\ \A p \in AddedPlaces :
               /\ heap[p].id \notin {heap[q].id : q \in Range(net.places)}
               /\ heap[p].nameId \notin NameIdsOf(net.places)
        /\ \A t \in AddedTransitions :
               /\ heap[t].id \notin {heap[u].id : u \in Range(net.transitions)}
               /\ heap[t].nameId \notin NameIdsOf(net.transitions)

\* C27: a net with a place of 2 tokens named by the caller, an edge of weight 2 from
\* a transition to a place and an edge outside the group rewritten has been
\* rewritten, and a place was added.
C27_Witness ==
    /\ Rewritten
    /\ AddedPlaces # {}
    /\ \E p \in Range(net.places) : heap[p].tokens = 2 /\ heap[p].nameId = 3
    /\ \E t \in Range(net.transitions) : Len(heap[t].out) = 1
    /\ \E p \in Range(net.places) : PostSet(p) # {} /\ PostSet(p) \notin GroupsToRewrite

\* The components the claim lists for the nodes from node i of `nodes` on: for a
\* place X_p if it holds 1 token and X_p to the power of its tokens if it holds more,
\* for a transition X_t if it has no incoming edge.
RECURSIVE ComponentsOf(_, _)
ComponentsOf(nodes, i) ==
    IF i > Len(nodes) THEN <<>>
    ELSE
        LET node == heap[nodes[i]]
            X == [type |-> "Constant", name |-> ProcessName(heap, nodes[i])]
        IN  (IF IsPlace(heap, nodes[i]) THEN
                 IF node.tokens = 1 THEN <<X>>
                 ELSE IF node.tokens > 1
                 THEN <<[type |-> "Exponent", process |-> X, count |-> node.tokens]>>
                 ELSE <<>>
             ELSE IF Len(node.in) = 0 THEN <<X>> ELSE <<>>)
            \o ComponentsOf(nodes, i + 1)

\* C23: the initial process of the term toCCS returns is, under its restrictions,
\* the parallel composition of X_p for each place of 1 token and of X_p to the power
\* of its tokens for each place of more, in place order, then of X_t for each
\* transition without incoming edges, in transition order; Inaction if there is
\* none, the component alone if there is one.
C23_InitialProcessIsMarkedPlacesThenGenerators ==
    result.kind = "ccs" =>
        LET components == ComponentsOf(net.places, 1) \o ComponentsOf(net.transitions, 1)
            initial == StripRestrictions(result.value.process)
        IN  CASE Len(components) = 0 -> initial = [type |-> "Inaction"]
              [] Len(components) = 1 -> initial = components[1]
              [] OTHER -> initial = [type |-> "Parallel", processes |-> components]

\* C23: a net with a place of 1 token before a place of 2 tokens and a transition
\* without incoming edges has been encoded.
C23_Witness ==
    /\ result.kind = "ccs"
    /\ Len(net.places) = 2
    /\ heap[net.places[1]].tokens = 1
    /\ heap[net.places[2]].tokens = 2
    /\ \E t \in Range(net.transitions) : Len(heap[t].in) = 0

\* The names of the constants that occur in the term.
RECURSIVE ConstantsOf(_)
ConstantsOf(term) ==
    CASE term.type = "Constant" -> {term.name}
      [] term.type = "Choice" ->
             UNION {ConstantsOf(term.choices[i]) : i \in DOMAIN term.choices}
      [] term.type = "Parallel" ->
             UNION {ConstantsOf(term.processes[i]) : i \in DOMAIN term.processes}
      [] term.type \in {"Prefix", "Exponent", "Restriction"} -> ConstantsOf(term.process)
      [] OTHER -> {}

\* The number of subterms of the term that are equal to `sub`.
RECURSIVE Occurrences(_, _), OccurrencesIn(_, _)
Occurrences(term, sub) ==
    (IF term = sub THEN 1 ELSE 0)
    + CASE term.type = "Choice" -> OccurrencesIn(term.choices, sub)
        [] term.type = "Parallel" -> OccurrencesIn(term.processes, sub)
        [] term.type \in {"Prefix", "Exponent", "Restriction"} ->
               Occurrences(term.process, sub)
        [] OTHER -> 0

OccurrencesIn(terms, sub) ==
    IF terms = <<>> THEN 0
    ELSE Occurrences(Head(terms), sub) + OccurrencesIn(Tail(terms), sub)

\* The transitions of the input net without incoming edges and those with one.
GeneratorTransitions == {t \in Range(net.transitions) : Len(heap[t].in) = 0}
SingleInputTransitions == {t \in Range(net.transitions) : Len(heap[t].in) = 1}

\* The prefix of a transition: its action before the composition of what it puts out.
PrefixOf(t) ==
    [type |-> "Prefix", action |-> LabelToAction(heap[t].label),
     process |-> ArrayToProcess(OutgoingProcesses(heap, net, t), "Parallel")]

\* C30: the term toCCS returns defines X_p for each place, X_t for each transition
\* without incoming edges and nothing else, each once; every constant of a definition
\* or of the initial process is defined; the definition of X_t is the action of t
\* before a process that holds X_t; the prefix of a transition with one incoming edge
\* stands in the definition of the place of that edge, once for each such edge of the
\* place to a transition with that prefix, and nowhere else.
C30_EncodingIsClosedAndComplete ==
    result.kind = "ccs" =>
        LET ccs == result.value
            names == [i \in DOMAIN ccs.definitions |-> ccs.definitions[i].name]
            defined == Range(net.places) \cup GeneratorTransitions
        IN  /\ Range(names) = {ProcessName(heap, node) : node \in defined}
            /\ Len(names) = Cardinality(defined)
            /\ \A i \in DOMAIN ProcessesOf(ccs) :
                   ConstantsOf(ProcessesOf(ccs)[i]) \subseteq Range(names)
            /\ \A t \in GeneratorTransitions :
                   LET definition == DefinitionOf(ccs, ProcessName(heap, t)) IN
                   /\ definition.type = "Prefix"
                   /\ definition.action = LabelToAction(heap[t].label)
                   /\ ProcessName(heap, t) \in ConstantsOf(definition.process)
            /\ \A t \in SingleInputTransitions :
                   LET prefix == PrefixOf(t) IN
                   /\ Occurrences(DefinitionOf(ccs, ProcessName(heap,
                                       heap[heap[t].in[1]].from)), prefix) >= 1
                   /\ \A p \in Range(net.places) :
                          Occurrences(DefinitionOf(ccs, ProcessName(heap, p)), prefix)
                              = Cardinality({e \in Range(heap[p].out) :
                                                /\ heap[e].to \in SingleInputTransitions
                                                /\ PrefixOf(heap[e].to) = prefix})
                   /\ \A u \in GeneratorTransitions :
                          Occurrences(DefinitionOf(ccs, ProcessName(heap, u)), prefix) = 0
                   /\ Occurrences(ccs.process, prefix) = 0

\* C30: a net of two places, one without outgoing edges, with a transition without
\* incoming edges that puts tokens out and a transition with one incoming edge has
\* been encoded.
C30_Witness ==
    /\ result.kind = "ccs"
    /\ Len(net.places) = 2
    /\ \E p \in Range(net.places) : Len(heap[p].out) = 0
    /\ \E t \in GeneratorTransitions : Len(heap[t].out) >= 1
    /\ SingleInputTransitions # {}

\* C29: whatever places and transitions were added, removed and updated, no two
\* places of the net share a name index, no two transitions share one, and each
\* registry marks exactly the indices in use (besides index 0, marked from the start).
C29_NameIndicesStayUniqueUnderUpdate ==
    /\ \A i, j \in DOMAIN net.places :
           heap[net.places[i]].nameId = heap[net.places[j]].nameId => i = j
    /\ \A i, j \in DOMAIN net.transitions :
           heap[net.transitions[i]].nameId = heap[net.transitions[j]].nameId => i = j
    /\ net.placeNames.marked = NameIdsOf(net.places) \cup {0}
    /\ net.transitionNames.marked = NameIdsOf(net.transitions) \cup {0}

\* C24: when the editor has updated what it shows for the input net, the update has
\* not thrown; if the input net is a group-choice net or a 2-τ-synchronisation net a
\* CCS term is stored and shown and the export button is enabled; otherwise the
\* output is the text that the net cannot be encoded, the stored CCS is null and
\* the button is disabled.
C24_ShownIffGroupChoiceOr2Tau ==
    result.kind = "gui" =>
        /\ result.value.threw = NoError
        /\ IF IsGroupChoiceNet(heap, net) \/ Is2TauSynchronisationNet(heap, net)
           THEN /\ result.value.ccs # Null
                /\ result.value.ccs = ToCCS(heap, result.value.petriNet2Tau)
                /\ result.value.output = "toHTML"
                /\ ~result.value.disabled
           ELSE /\ result.value.ccs = Null
                /\ result.value.output = CANNOT_BE_ENCODED
                /\ result.value.disabled

\* C24: the editor shows the term of a 2-τ-synchronisation net that is not a
\* group-choice net.
C24_Witness ==
    /\ result.kind = "gui"
    /\ Is2TauSynchronisationNet(heap, net)
    /\ ~IsGroupChoiceNet(heap, net)
    /\ ~result.value.disabled

\* The places and the transitions of net n of heap h, without their edges.
NodesOf(h, n) ==
    [places |-> [i \in DOMAIN n.places |->
                    <<h[n.places[i]].id, h[n.places[i]].nameId, h[n.places[i]].tokens>>],
     transitions |-> [i \in DOMAIN n.transitions |->
                         <<h[n.transitions[i]].id, h[n.transitions[i]].nameId,
                           h[n.transitions[i]].label>>]]

\* The ends (kind and id) and the weight of the edges in the list.
EndsOf(h, edges) ==
    {<<h[h[e].from].kind, h[h[e].from].id, h[h[e].to].id, h[e].weight>> :
        e \in Range(edges)}

\* The net g of the heap has the places, the transitions and the edges collection
\* of the net c of heap hc.
SameNets(hc, c, g) ==
    /\ NodesOf(hc, c) = NodesOf(heap, g)
    /\ Len(c.edges) = Len(g.edges)
    /\ EndsOf(hc, c.edges) = EndsOf(heap, g.edges)

\* C28: the net the editor holds after update2TauSynchronisationNet is one of the
\* nets to2TauSynchronisationNet returns for the input net (that of the same draws):
\* the same places, transitions, labels and tokens and the same edges collection
\* (as many edges, with the same ends and weights); and the editor's method has
\* returned false exactly where the core method throws.
C28_GuiTransformsAsCore ==
    (result.kind = "gui" /\ result.value.threw = NoError) =>
        LET core == To2TauSynchronisationNet(SubSeq(heap, 1, result.base), net) IN
        IF result.value.isEncodable
        THEN \E c \in core :
                 c.threw = NoError /\ SameNets(c.heap, c.net, result.value.petriNet2Tau)
        ELSE \A c \in core : c.threw = ERROR_NOT_TRANSFORMABLE
====
